---- MODULE Spec2Model ----
(***************************************************************************)
(* A model of youtube-commenter's credential lifecycle, session check,     *)
(* paginated fetch, comment sync and reply posting.                         *)
(*                                                                         *)
(* Every handler is an async fn; each `.await` on the database or on a     *)
(* remote endpoint is a suspension point, so a handler is modelled as a    *)
(* task whose pc advances by one awaited operation per step.  Tables of    *)
(* the SurrealDB store are sets of rows, each row carrying the unique      *)
(* record id `create` gives it.  Time is counted in seconds.               *)
(***************************************************************************)
EXTENDS Integers, Sequences, FiniteSets, TLC

\* ------------------------------------------------------------------ bounds
NumTasks == 2
MaxCalls == 3
MaxNow == 2
\* items on one page, and pages the remote serves for one paginated fetch
MaxPageLen == 1
MaxPages == 3

\* ------------------------------------------------------- program constants
\* Duration::minutes(5), in seconds
RefreshWindow == 300
\* Duration::days(7), in seconds
SessionLifetime == 604800

Tasks == 1..NumTasks
Users == {"u1", "u2"}

\* expires_in values the provider answers with (one hour, Google's usual)
ExpiresIn == {3600}

\* expires_in is an i64 of the provider's JSON: any lifetime, and any sign
ExpiresInAny == {-1, 60, 3600}
\* expires_at of the credentials stored before the observed run starts
InitExpiry(u) == IF u = "u1" THEN 301 ELSE 900

VARIABLES
    now,           \* Utc::now(), seconds
    auth_tokens,   \* table auth_tokens
    sessions,      \* table sessions
    users,         \* table users
    comments,      \* table comments
    interactions,  \* table interactions
    pc,            \* where each task is suspended
    call,          \* the operation a task runs and its arguments
    loc,           \* the local variables of the running operation
    result,        \* what the operation returned
    nextTok,       \* next access token the provider issues
    ncalls         \* operations started so far

vars == <<now, auth_tokens, sessions, users, comments, interactions,
          pc, call, loc, result, nextTok, ncalls>>

\* the tables the credential manager never touches
otherTables == <<sessions, users, comments, interactions>>

\* ------------------------------------------------------------------ values
NoRow == [rid |-> 0, user_id |-> "", access_token |-> 0, refresh_token |-> "",
          expires_at |-> 0]
NoToken == [access_token |-> 0, refresh_token |-> "", expires_at |-> 0]

NoResult == [status |-> "none"]
Ok(v) == [status |-> "ok", value |-> v]
Err(e) == [status |-> "err", err |-> e]

NoCall == [op |-> "idle", user |-> "", no |-> 0]

NoSession == [id |-> 0, user_id |-> "", created_at |-> 0, expires_at |-> 0,
              is_active |-> FALSE]

\* token .. session: locals of the credential and session operations;
\* page_token, items: the pager loop's `page_token` and `all_*` vector;
\* requested, pages, returned: what went over the wire in the loop, i.e. the
\* page token of each request, and the items and the next_page_token ("" if
\* absent) of each response; threads, idx, built: fetch_comments'
\* comment_threads, its loop position and its `comments` vector; reply_id:
\* post_reply's reply.
\* no answer of the provider received
NoAnswer == [kind |-> "none"]

LocInit == [token |-> NoRow, checked_at |-> 0, new_token |-> NoToken,
            answer |-> NoAnswer, exchange_calls |-> 0, bearer |-> 0,
            access_token |-> 0, refresh_calls |-> 0, writes |-> 0,
            saved |-> FALSE, session |-> NoSession,
            page_token |-> "", items |-> <<>>, requested |-> <<>>,
            pages |-> <<>>, returned |-> <<>>,
            threads |-> <<>>, idx |-> 0, built |-> <<>>, reply_id |-> 0]

RefreshTokenOf(u) == IF u = "u1" THEN "rt1" ELSE "rt2"
InitAccessToken(u) == IF u = "u1" THEN 1 ELSE 2

\* ---------------------------------------------------------------- database
\* SELECT * FROM auth_tokens WHERE user_id = $user_id
TokenRows(u) == {r \in auth_tokens : r.user_id = u}

\* ------------------------------------------------------------ control flow
\* the step that follows get_valid_access_token in each caller, and the one
\* that follows create_or_update_user in oauth_callback
AfterToken(op) ==
    CASE op \in {"sync", "api_comments"} -> "threads_http"
      [] op = "callback" -> "sess_create"
      [] op \in {"post", "api_post"} -> "post_http"
      [] op \in {"videos", "api_videos"} -> "channel_http"
      [] OTHER -> "done"

\* the requests that reach a service through a handler of the HTTP API
ApiOps == {"api_post", "api_videos", "api_history", "api_comments",
           "callback"}

\* where a service operation returns to: the handler that called it, or the
\* caller outside
ReturnTo(t) == IF call[t].op \in ApiOps THEN "api_return" ELSE "done"

\* the operation returns r to its caller, its locals being l
FinishWith(t, r, l) ==
    /\ pc' = [pc EXCEPT ![t] = ReturnTo(t)]
    /\ result' = [result EXCEPT ![t] = r]
    /\ loc' = [loc EXCEPT ![t] = l]

Finish(t, r) == FinishWith(t, r, loc[t])

\* get_valid_access_token returns Ok(tok) to its caller
GvatReturn(t, tok, l) ==
    IF call[t].op = "ensure"
    THEN FinishWith(t, Ok(tok), [l EXCEPT !.access_token = tok])
    ELSE /\ loc' = [loc EXCEPT ![t] = [l EXCEPT !.access_token = tok]]
         /\ pc' = [pc EXCEPT ![t] = AfterToken(call[t].op)]
         /\ UNCHANGED result

\* ------------------------------------------------- get_valid_access_token
NeedsRefreshStrict(expires_at, t_now) == expires_at < t_now + RefreshWindow

\* token.expires_at <= Utc::now() + Duration::minutes(5)
NeedsRefresh(expires_at, t_now) == expires_at <= t_now + RefreshWindow

\* db.get_auth_token, the expiry check and, when due, the refresh request
GvatLoad(t) ==
    /\ pc[t] = "gvat_load"
    /\ IF TokenRows(call[t].user) = {}
       THEN Finish(t, Err("no_token"))
       ELSE \E r \in TokenRows(call[t].user) :
              LET l == [loc[t] EXCEPT !.token = r, !.checked_at = now] IN
              IF NeedsRefresh(r.expires_at, now)
              THEN /\ loc' = [loc EXCEPT ![t] =
                               [l EXCEPT !.refresh_calls = @ + 1]]
                   /\ pc' = [pc EXCEPT ![t] = "refresh_http"]
                   /\ UNCHANGED result
              ELSE GvatReturn(t, r.access_token, l)
    /\ UNCHANGED <<now, auth_tokens, call, nextTok, ncalls>>
    /\ UNCHANGED otherTables

\* the provider's answers to a refresh request
\* the answers of a provider that issues one-hour tokens and no new refresh
\* token: a token response; a non-success status because the refresh token
\* was rejected; or no response at all
RefreshAnswers ==
    [kind : {"ok"}, expires_in : ExpiresIn, refresh_token : {""}]
    \cup {[kind |-> "rejected"], [kind |-> "network"]}

\* the answers of any provider: a token response of any lifetime, with or
\* without a refresh_token, and a non-success status for another reason
\* than a rejected refresh token
RefreshAnswersAny ==
    [kind : {"ok"}, expires_in : ExpiresInAny, refresh_token : {"", "rotated"}]
    \cup {[kind |-> "rejected"], [kind |-> "server"], [kind |-> "network"]}

RefreshedTokenRotating(old, resp, tok, t_now) ==
    [access_token |-> tok,
     refresh_token |-> IF resp.refresh_token = "" THEN old
                       ELSE resp.refresh_token,
     expires_at |-> t_now + resp.expires_in]

RefreshedTokenDefaulting(old, resp, tok, t_now) ==
    [access_token |-> tok,
     refresh_token |-> resp.refresh_token,
     expires_at |-> t_now + resp.expires_in]

\* the AuthToken refresh_token builds from a successful response
RefreshedToken(old, resp, tok, t_now) ==
    [access_token |-> tok,
     refresh_token |-> old,
     expires_at |-> t_now + resp.expires_in]

\* the error refresh_token returns: `.send().await?` passes on the error of
\* the request, and every non-success status ends in the same bail!
RefreshError(resp) ==
    IF resp.kind = "network" THEN "network" ELSE "refresh_failed"

RefreshFailureWipes(t, resp) ==
    /\ FinishWith(t, Err(RefreshError(resp)),
                  [loc[t] EXCEPT !.answer = resp])
    /\ auth_tokens' = auth_tokens \ TokenRows(call[t].user)

RefreshFailureRetries(t, resp) ==
    /\ loc' = [loc EXCEPT ![t] = [loc[t] EXCEPT !.answer = resp,
                                                !.refresh_calls = @ + 1]]
    /\ UNCHANGED <<pc, result, auth_tokens>>

\* refresh_token bails out; get_valid_access_token passes the error on
RefreshFailure(t, resp) ==
    /\ FinishWith(t, Err(RefreshError(resp)),
                  [loc[t] EXCEPT !.answer = resp])
    /\ UNCHANGED auth_tokens

\* refresh_token: the provider's response, one of answers, arrives
RefreshResponseFrom(t, answers) ==
    /\ pc[t] = "refresh_http"
    /\ \E resp \in answers :
         IF resp.kind = "ok"
         THEN /\ loc' = [loc EXCEPT ![t] =
                          [loc[t] EXCEPT
                             !.answer = resp,
                             !.new_token =
                               RefreshedToken(loc[t].token.refresh_token,
                                              resp, nextTok, now)]]
              /\ nextTok' = nextTok + 1
              /\ pc' = [pc EXCEPT ![t] = "save_delete"]
              /\ UNCHANGED <<result, auth_tokens>>
         ELSE /\ RefreshFailure(t, resp)
              /\ UNCHANGED nextTok
    /\ UNCHANGED <<now, call, ncalls>>
    /\ UNCHANGED otherTables

RefreshResponse(t) == RefreshResponseFrom(t, RefreshAnswers)

RefreshResponseAny(t) == RefreshResponseFrom(t, RefreshAnswersAny)

SaveTokenDeleteAll(t) ==
    /\ pc[t] = "save_delete"
    /\ auth_tokens' = {}
    /\ loc' = [loc EXCEPT ![t].writes = @ + 1]
    /\ pc' = [pc EXCEPT ![t] = "save_create"]
    /\ UNCHANGED <<now, call, result, nextTok, ncalls>>
    /\ UNCHANGED otherTables

\* save_auth_token, first query: DELETE FROM auth_tokens WHERE user_id = ..
SaveTokenDelete(t) ==
    /\ pc[t] = "save_delete"
    /\ auth_tokens' = auth_tokens \ TokenRows(call[t].user)
    /\ loc' = [loc EXCEPT ![t].writes = @ + 1]
    /\ pc' = [pc EXCEPT ![t] = "save_create"]
    /\ UNCHANGED <<now, call, result, nextTok, ncalls>>
    /\ UNCHANGED otherTables

TokenRow(rid, u, tok) ==
    [rid |-> rid, user_id |-> u, access_token |-> tok.access_token,
     refresh_token |-> tok.refresh_token, expires_at |-> tok.expires_at]

\* save_auth_token, second query: create("auth_tokens"); then
\* get_valid_access_token returns the new access token
SaveTokenCreate(t) ==
    /\ pc[t] = "save_create"
    /\ auth_tokens' = auth_tokens \cup
                        {TokenRow(loc[t].new_token.access_token, call[t].user,
                                  loc[t].new_token)}
    /\ GvatReturn(t, loc[t].new_token.access_token,
                  [loc[t] EXCEPT !.writes = @ + 1, !.saved = TRUE])
    /\ UNCHANGED <<now, call, nextTok, ncalls>>
    /\ UNCHANGED otherTables

\* ------------------------------------------------------------ exchange_code
\* the provider's answers to a code exchange
ExchangeAnswers ==
    [kind : {"ok"}, expires_in : {3600}, refresh_token : {"", "rt3"}]
    \cup {[kind |-> "rejected"], [kind |-> "server"], [kind |-> "network"]}

\* the AuthToken exchange_code builds from a successful response:
\* refresh_token.unwrap_or_default()
ExchangedToken(resp, tok, t_now) ==
    [access_token |-> tok,
     refresh_token |-> resp.refresh_token,
     expires_at |-> t_now + resp.expires_in]

\* the error exchange_code returns
ExchangeError(resp) ==
    IF resp.kind = "network" THEN "network" ELSE "exchange_failed"

\* exchange_code: the token request and the provider's response; in
\* oauth_callback, Ok(token) leads on to create_or_update_user(&token)
ExchangeResponse(t) ==
    /\ pc[t] = "exchange_http"
    /\ \E resp \in ExchangeAnswers :
         LET l == [loc[t] EXCEPT !.answer = resp,
                                 !.exchange_calls = @ + 1] IN
         IF resp.kind = "ok"
         THEN /\ IF call[t].op = "callback"
                 THEN /\ loc' = [loc EXCEPT ![t] =
                                  [l EXCEPT !.new_token =
                                     ExchangedToken(resp, nextTok, now)]]
                      /\ pc' = [pc EXCEPT ![t] = "userinfo_http"]
                      /\ UNCHANGED result
                 ELSE FinishWith(t, Ok(ExchangedToken(resp, nextTok, now)), l)
              /\ nextTok' = nextTok + 1
         ELSE /\ FinishWith(t, Err(ExchangeError(resp)), l)
              /\ UNCHANGED nextTok
    /\ UNCHANGED <<now, auth_tokens, call, ncalls>>
    /\ UNCHANGED otherTables

\* ------------------------------------------------------------------- tasks
Idle(t) == pc[t] \in {"idle", "done"}

\* a request arrives and a task starts to serve it.  Tasks are
\* interchangeable, so the request goes to the first free one; the number of
\* the call is the source of the unique ids (uuids, record ids) it makes.
Begin(t, c, first) ==
    /\ Idle(t)
    /\ \A s \in Tasks : s < t => ~Idle(s)
    /\ ncalls < MaxCalls
    /\ ncalls' = ncalls + 1
    /\ call' = [call EXCEPT ![t] = [c EXCEPT !.no = ncalls + 1]]
    /\ loc' = [loc EXCEPT ![t] = LocInit]
    /\ result' = [result EXCEPT ![t] = NoResult]
    /\ pc' = [pc EXCEPT ![t] = first]

\* a caller asks for a valid access token of account u
StartEnsure(t) ==
    /\ \E u \in Users : Begin(t, [op |-> "ensure", user |-> u, no |-> 0],
                          "gvat_load")
    /\ UNCHANGED <<now, auth_tokens, nextTok>>
    /\ UNCHANGED otherTables

\* the provider redirects back with an authorization code
StartExchange(t) ==
    /\ Begin(t, [op |-> "exchange", user |-> "", no |-> 0, code |-> "code"],
             "exchange_http")
    /\ UNCHANGED <<now, auth_tokens, nextTok>>
    /\ UNCHANGED otherTables

\* a second of wall-clock time passes
Tick ==
    /\ now < MaxNow
    /\ now' = now + 1
    /\ UNCHANGED <<auth_tokens, pc, call, loc, result, nextTok, ncalls>>
    /\ UNCHANGED otherTables

\* ------------------------------------------------------- credential manager
InitTasks ==
    /\ pc = [t \in Tasks |-> "idle"]
    /\ call = [t \in Tasks |-> NoCall]
    /\ loc = [t \in Tasks |-> LocInit]
    /\ result = [t \in Tasks |-> NoResult]
    /\ ncalls = 0

\* every account authenticated once: one credential row each
InitCred ==
    /\ now = 0
    /\ auth_tokens = {[rid |-> InitAccessToken(u), user_id |-> u,
                       access_token |-> InitAccessToken(u),
                       refresh_token |-> RefreshTokenOf(u),
                       expires_at |-> InitExpiry(u)] : u \in Users}
    /\ sessions = {}
    /\ users = {[id |-> u] : u \in Users}
    /\ comments = {}
    /\ interactions = {}
    /\ nextTok = 3
    /\ InitTasks

CredStep(t) ==
    \/ StartEnsure(t)
    \/ GvatLoad(t)
    \/ RefreshResponse(t)
    \/ SaveTokenDelete(t)
    \/ SaveTokenCreate(t)

NextCred == Tick \/ \E t \in Tasks : CredStep(t)

SpecCred == InitCred /\ [][NextCred]_vars

\* ------------------------------------------------- credential manager claims
\* a task between its refresh request and the return of the new token
RefreshPcs == {"refresh_http", "save_delete", "save_create"}

\* C1: concurrent get_valid_access_token calls for one account, its stored
\* credential being within the refresh window, make one refresh call between
\* them: never are two of them refreshing that account at the same time
\* (each would return the access token of its own refresh).
C1_SingleRefresh ==
    \A t1, t2 \in Tasks :
        (t1 # t2 /\ call[t1].user = call[t2].user)
            => ~(pc[t1] \in RefreshPcs /\ pc[t2] \in RefreshPcs)

\* C5: a get_valid_access_token call whose refresh the provider rejects
\* fails, and no step of that call up to and including the rejection
\* changes the auth_tokens table.
C5_RejectedRefreshKeepsCredential ==
    [][\A t \in Tasks :
        /\ (pc[t] \in {"gvat_load", "refresh_http"} /\ pc'[t] # pc[t])
              => auth_tokens' = auth_tokens
        /\ (pc[t] = "refresh_http" /\ pc'[t] = "done")
              => result'[t].status = "err"
      ]_vars

C5_Witness ==
    \E t \in Tasks :
        /\ pc[t] = "done"
        /\ call[t].op = "ensure"
        /\ result[t] = Err("refresh_failed")
        /\ \E r \in TokenRows(call[t].user) : r.rid = InitAccessToken(r.user_id)

\* C6: get_valid_access_token refreshes exactly when the credential it loaded
\* has expires_at <= now + 5 min: then it sends one refresh request, stores
\* the new credential in the step that returns, and returns the new access
\* token; otherwise it returns the loaded access token, asks the provider
\* nothing and writes nothing.
C6_RefreshIffDue ==
    [][\A t \in Tasks :
        (call[t].op = "ensure" /\ pc'[t] # pc[t]) =>
          /\ (pc[t] = "gvat_load" /\ pc'[t] = "refresh_http") =>
                /\ loc'[t].token \in TokenRows(call[t].user)
                /\ loc'[t].token.expires_at <= now + RefreshWindow
                /\ loc'[t].refresh_calls = 1
                /\ auth_tokens' = auth_tokens
          /\ (pc[t] = "gvat_load" /\ pc'[t] = "done"
                                  /\ result'[t].status = "ok") =>
                /\ \E r \in TokenRows(call[t].user) :
                      /\ r.expires_at > now + RefreshWindow
                      /\ result'[t].value = r.access_token
                /\ auth_tokens' = auth_tokens
                /\ nextTok' = nextTok
          /\ (pc[t] = "save_create" /\ pc'[t] = "done") =>
                /\ result'[t] = Ok(loc[t].new_token.access_token)
                /\ loc[t].new_token.access_token # loc[t].token.access_token
                /\ loc[t].refresh_calls = 1
                /\ \E r \in auth_tokens' :
                      /\ r.user_id = call[t].user
                      /\ r.access_token = loc[t].new_token.access_token
                      /\ r.expires_at = loc[t].new_token.expires_at
      ]_vars

C6_Witness ==
    \E t1, t2 \in Tasks :
        /\ pc[t1] = "done" /\ pc[t2] = "done"
        /\ call[t1].op = "ensure" /\ call[t2].op = "ensure"
        /\ result[t1].status = "ok" /\ result[t2].status = "ok"
        /\ result[t1].value = InitAccessToken(call[t1].user)
        /\ result[t2].value > 2
        /\ \E r \in TokenRows(call[t2].user) :
              r.access_token = result[t2].value

\* C7: the auth_tokens table never holds two rows of one account.
C7_OneCredentialPerAccount ==
    \A u \in Users : Cardinality(TokenRows(u)) <= 1

\* C32: a step of get_valid_access_token for account A leaves the
\* auth_tokens rows of every other account as they are, holds a credential
\* of A only, writes rows of A only, and returns an access token of a row of
\* A.
C32_AccountsIndependent ==
    [][\A t \in Tasks :
        (call'[t].op = "ensure" /\ (pc'[t] # pc[t] \/ loc'[t] # loc[t])) =>
          /\ \A b \in Users \ {call'[t].user} :
                {r \in auth_tokens' : r.user_id = b} = TokenRows(b)
          /\ \A r \in auth_tokens' \ auth_tokens : r.user_id = call'[t].user
          /\ (loc'[t].token # NoRow) => loc'[t].token.user_id = call'[t].user
          /\ (pc'[t] = "done" /\ result'[t].status = "ok") =>
                \E r \in auth_tokens' :
                    /\ r.user_id = call'[t].user
                    /\ r.access_token = result'[t].value
      ]_vars

\* a call for u1 has refreshed and stored, a call for u2 has returned the
\* access token of u2's credential, which is the one u2 had from the start
C32_Witness ==
    \E t1, t2 \in Tasks :
        /\ pc[t1] = "done" /\ call[t1].op = "ensure" /\ call[t1].user = "u1"
        /\ loc[t1].saved
        /\ pc[t2] = "done" /\ call[t2].op = "ensure" /\ call[t2].user = "u2"
        /\ result[t2] = Ok(InitAccessToken("u2"))
        /\ \A r \in TokenRows("u2") : r.rid = InitAccessToken("u2")
        /\ TokenRows("u2") # {}

\* C37: every account holds a stored credential from the start, and no call
\* of get_valid_access_token for such an account ends with the error of a
\* missing auth token.
C37_CredentialNeverAbsent ==
    \A t \in Tasks :
       (pc[t] = "done" /\ call[t].op = "ensure" /\ call[t].user \in Users)
          => result[t] # Err("no_token")

\* ========================================================= session manager
\* SELECT * FROM sessions WHERE id = $session_id
SessionRows(sid) == {s \in sessions : s.id = sid}

\* SELECT * FROM users WHERE id = $user_id
UserRows(u) == {r \in users : r.id = u}

NoneValue == [tag |-> "none"]

SessionAcceptedBeforeExpiry(s, t_now) == s.is_active /\ t_now < s.expires_at

SessionAcceptedAfterCreation(s, t_now) ==
    s.is_active /\ s.created_at < t_now /\ ~(s.expires_at < t_now)

\* the negation of `!session.is_active || session.expires_at < Utc::now()`
SessionAccepted(s, t_now) == ~(~s.is_active \/ s.expires_at < t_now)

\* validate_session: db.get_session and the active/expiry check
ValGetSession(t) ==
    /\ pc[t] = "val_session"
    /\ IF SessionRows(call[t].sid) = {}
       THEN Finish(t, Ok(NoneValue))
       ELSE \E s \in SessionRows(call[t].sid) :
              IF ~SessionAccepted(s, now)
              THEN Finish(t, Ok(NoneValue))
              ELSE /\ loc' = [loc EXCEPT ![t].session = s,
                                         ![t].checked_at = now]
                   /\ pc' = [pc EXCEPT ![t] = "val_user"]
                   /\ UNCHANGED result
    /\ UNCHANGED <<now, auth_tokens, sessions, users, comments, interactions,
                   call, nextTok, ncalls>>

\* validate_session: db.get_user of the session's user, then the return
ValGetUser(t) ==
    /\ pc[t] = "val_user"
    /\ IF UserRows(loc[t].session.user_id) = {}
       THEN Finish(t, Ok(NoneValue))
       ELSE Finish(t, Ok([tag |-> "some", session |-> loc[t].session,
                          user |-> loc[t].session.user_id]))
    /\ UNCHANGED <<now, auth_tokens, sessions, users, comments, interactions,
                   call, nextTok, ncalls>>

NewSession(sid, u, t_now) ==
    [id |-> sid, user_id |-> u, created_at |-> t_now,
     expires_at |-> t_now + SessionLifetime, is_active |-> TRUE]

\* create_session: build the Session, db.create_session, return it
CreateSession(t) ==
    /\ pc[t] = "sess_create"
    /\ sessions' = sessions \cup {NewSession(call[t].no, call[t].user, now)}
    /\ Finish(t, Ok(NewSession(call[t].no, call[t].user, now)))
    /\ UNCHANGED <<now, auth_tokens, users, comments, interactions,
                   call, nextTok, ncalls>>

EndedDeleting(sid) == {s \in sessions : s.id # sid}

EndedToggling(sid) ==
    {IF s.id = sid THEN [s EXCEPT !.is_active = ~@] ELSE s : s \in sessions}

\* UPDATE sessions SET is_active = false WHERE id = $session_id
Ended(sid) ==
    {IF s.id = sid THEN [s EXCEPT !.is_active = FALSE] ELSE s : s \in sessions}

\* end_session: the UPDATE, and Ok(())
EndSession(t) ==
    /\ pc[t] = "sess_end"
    /\ sessions' = Ended(call[t].sid)
    /\ Finish(t, Ok("unit"))
    /\ UNCHANGED <<now, auth_tokens, users, comments, interactions,
                   call, nextTok, ncalls>>

\* session ids a request may carry: the ids handed out and unknown ones
SessionIds == 0..(ncalls + 1)

StartValidate(t) ==
    /\ \E sid \in SessionIds :
         Begin(t, [op |-> "validate", user |-> "", no |-> 0, sid |-> sid],
               "val_session")
    /\ UNCHANGED <<now, auth_tokens, nextTok>>
    /\ UNCHANGED otherTables

StartCreateSession(t) ==
    /\ \E r \in users :
         Begin(t, [op |-> "create_session", user |-> r.id, no |-> 0],
               "sess_create")
    /\ UNCHANGED <<now, auth_tokens, nextTok>>
    /\ UNCHANGED otherTables

StartEndSession(t) ==
    /\ \E sid \in SessionIds :
         Begin(t, [op |-> "end_session", user |-> "", no |-> 0, sid |-> sid],
               "sess_end")
    /\ UNCHANGED <<now, auth_tokens, nextTok>>
    /\ UNCHANGED otherTables

\* expires_at of the session that exists when the observed run starts
InitSessionExpiry == 1

\* account u1 logged in seven days (less one second) ago
InitSess ==
    /\ now = 0
    /\ auth_tokens = {}
    /\ sessions = {[NewSession(0, "u1", InitSessionExpiry - SessionLifetime)
                     EXCEPT !.expires_at = InitSessionExpiry]}
    /\ users = {[id |-> "u1"]}
    /\ comments = {}
    /\ interactions = {}
    /\ nextTok = 1
    /\ InitTasks

SessStep(t) ==
    \/ StartValidate(t)
    \/ StartCreateSession(t)
    \/ StartEndSession(t)
    \/ ValGetSession(t)
    \/ ValGetUser(t)
    \/ CreateSession(t)
    \/ EndSession(t)

NextSess == Tick \/ \E t \in Tasks : SessStep(t)

SpecSess == InitSess /\ [][NextSess]_vars

\* ---------------------------------------------------- session manager claims
\* C4: validate_session accepts an active session exactly when now < expires_at:
\* a session checked at the instant expires_at = now is refused, so every
\* session that passed the check was active and had now < expires_at then.
C4_ExactBoundary ==
    \A t \in Tasks :
        pc[t] = "val_user" =>
            /\ loc[t].session.is_active
            /\ loc[t].checked_at < loc[t].session.expires_at

\* C21: the check of validate_session lets a session pass exactly when a row
\* with the id exists, is active and has now < expires_at, and otherwise
\* the call returns None; a session that passed is returned together with
\* the user whose id is the session's user_id; no step of the call changes
\* a table.
C21_ValidateResult ==
    [][\A t \in Tasks :
         (call[t].op = "validate" /\ pc[t] # pc'[t]) =>
             /\ <<auth_tokens, sessions, users, comments, interactions>>'
                  = <<auth_tokens, sessions, users, comments, interactions>>
             /\ pc[t] = "val_session" =>
                  IF \E x \in SessionRows(call[t].sid) :
                       x.is_active /\ now < x.expires_at
                  THEN pc'[t] = "val_user"
                  ELSE pc'[t] = "done" /\ result'[t] = Ok(NoneValue)
             /\ (pc[t] = "val_user" /\ result'[t] # Ok(NoneValue)) =>
                  /\ result'[t].value.session = loc[t].session
                  /\ result'[t].value.user = loc[t].session.user_id]_vars

SameButActive(x, y) == [x EXCEPT !.is_active = TRUE] = [y EXCEPT !.is_active = TRUE]

\* C22: every step keeps every stored session, with all its fields but
\* is_active; is_active never goes from false to true; and validate_session
\* lets no inactive session pass its check.
C22_SessionsOnlyDeactivated ==
    [][/\ \A x \in sessions :
            \E y \in sessions' :
                /\ y.id = x.id
                /\ SameButActive(x, y)
                /\ y.is_active => x.is_active
       /\ \A t \in Tasks :
            (pc[t] = "val_session" /\ pc'[t] = "val_user") =>
                \A x \in SessionRows(call[t].sid) : x.is_active]_vars

\* a session created in this run was ended, and a later validate of it
\* returned None
C22_Witness ==
    /\ \E x \in sessions : x.id > 0 /\ ~x.is_active
    /\ \E t \in Tasks :
         /\ call[t].op = "validate"
         /\ pc[t] = "done"
         /\ result[t] = Ok(NoneValue)
         /\ \E x \in SessionRows(call[t].sid) : x.id > 0 /\ ~x.is_active

\* C23: end_session returns Ok for every session id; it leaves the sessions
\* with that id inactive and every other row as it was; when the id names no
\* session, or an ended one, the table is unchanged.
C23_EndIsIdempotent ==
    [][\A t \in Tasks :
         (pc[t] = "sess_end" /\ pc'[t] # pc[t]) =>
             /\ result'[t] = Ok("unit")
             /\ \A y \in sessions' : y.id = call[t].sid => ~y.is_active
             /\ {[x EXCEPT !.is_active = FALSE] : x \in SessionRows(call[t].sid)}
                  \cup (sessions \ SessionRows(call[t].sid)) = sessions'
             /\ (\A x \in SessionRows(call[t].sid) : ~x.is_active)
                  => sessions' = sessions]_vars

\* two end_session calls on the initial session have both returned Ok
C23_Witness ==
    /\ \A x \in SessionRows(0) : ~x.is_active
    /\ \E t, u \in Tasks :
         /\ t # u
         /\ call[t].op = "end_session" /\ call[u].op = "end_session"
         /\ call[t].sid = 0 /\ call[u].sid = 0
         /\ pc[t] = "done" /\ pc[u] = "done"
         /\ result[t] = Ok("unit") /\ result[u] = Ok("unit")

\* C36: create_session stores and returns an active session of the given
\* account whose expires_at is created_at plus seven days, and validate_session
\* accepts every active session whose expires_at is still ahead, from the
\* moment it was created on, when the account's user row exists.
C36_CreatedThenAccepted ==
    [][\A t \in Tasks :
         /\ (pc[t] = "sess_create" /\ pc'[t] = "done") =>
              /\ result'[t].status = "ok"
              /\ result'[t].value.is_active
              /\ result'[t].value.user_id = call[t].user
              /\ result'[t].value.created_at = now
              /\ result'[t].value.expires_at
                   = result'[t].value.created_at + SessionLifetime
              /\ sessions' = sessions \cup {result'[t].value}
         /\ (pc[t] = "val_session" /\ pc'[t] # "val_session") =>
              \A s \in SessionRows(call[t].sid) :
                 (s.is_active /\ now < s.expires_at) =>
                    /\ pc'[t] = "val_user"
                    /\ loc'[t].session = s
         /\ (pc[t] = "val_user" /\ pc'[t] = "done"
               /\ UserRows(loc[t].session.user_id) # {}) =>
              result'[t] = Ok([tag |-> "some", session |-> loc[t].session,
                               user |-> loc[t].session.user_id])
    ]_vars

\* a session created in this run was accepted at the second it was created
C36_Witness ==
    \E t \in Tasks :
       /\ pc[t] = "done"
       /\ call[t].op = "validate"
       /\ result[t].status = "ok"
       /\ result[t].value.tag = "some"
       /\ result[t].value.session.id >= 1
       /\ result[t].value.session.created_at = loc[t].checked_at
       /\ result[t].value.session \in sessions

\* ============================================================== remote API
\* What the remote holds.  A response to a page request is any page of the
\* resource's items together with any of its page tokens, or none, as
\* next_page_token; or a failure (network error, non-success status).
Videos == {"v0", "v1", "v2", "v3"}

\* the comment threads of a video: (id, snippet.total_reply_count)
RemoteThreads(v) ==
    CASE v = "v1" -> {[id |-> "c1", total_reply_count |-> 0]}
      [] v = "v0" -> {}
      [] v = "v3" -> {[id |-> "c4", total_reply_count |-> 0],
                      [id |-> "c5", total_reply_count |-> 2]}
      [] OTHER -> {[id |-> "c2", total_reply_count |-> 0],
                   [id |-> "c3", total_reply_count |-> 2]}

\* the ids of the replies to a comment
RemoteReplies(c) == IF c \in {"c3", "c5"} THEN {"r1", "r2"} ELSE {}

\* Videos v1, v3, comment c5 and the channel are served the way the API
\* documents it: the
\* items in a fixed order, each page the next run of them, the page token
\* naming the place where the next page starts.  The other resources are
\* served by a remote that is free to answer anything.
RemoteOrder(resource) ==
    CASE resource = "v1" -> <<[id |-> "c1", total_reply_count |-> 0]>>
      [] resource = "v3" -> <<[id |-> "c4", total_reply_count |-> 0],
                              [id |-> "c5", total_reply_count |-> 2]>>
      [] resource = "c5" -> <<"r1", "r2">>
      [] resource = "channel" -> <<"v1", "v2">>
      [] OTHER -> <<>>

CursorPos(token) == CASE token = "" -> 0 [] token = "p1" -> 1 [] OTHER -> 2

TokenAt(k) == IF k = 1 THEN "p1" ELSE "p2"

Served(resource, l, resp) ==
    (RemoteOrder(resource) # <<>> /\ resp.status = "ok") =>
        LET k == CursorPos(l.page_token)
            n == Len(resp.items)
            all == RemoteOrder(resource)
        IN /\ n >= 1
           /\ k + n <= Len(all)
           /\ resp.items = SubSeq(all, k + 1, k + n)
           /\ resp.next = IF k + n = Len(all) THEN "" ELSE TokenAt(k + n)

\* the ids of the videos of the account's channel
RemoteVideos == {"v1", "v2"}

\* the page tokens the remote uses for a paged resource
PageTokens(resource) ==
    CASE resource \in {"v0", "v1"} -> {}
      [] resource \in {"v3", "c5"} -> {"p1"}
      [] OTHER -> {"p1", "p2"}

Pages(S) == UNION {[1..n -> S] : n \in 0..MaxPageLen}

PageAnswers(S, tokens) ==
    [status : {"ok"}, items : Pages(S), next : tokens \cup {""}]
    \cup {[status |-> "error"]}

\* ================================================================== pager
\* the loops of fetch_comment_threads, fetch_replies and get_channel_videos

\* a fetch_* call starts: all_* empty, page_token None
PagerReset(l) ==
    [l EXCEPT !.page_token = "", !.items = <<>>, !.requested = <<>>,
              !.pages = <<>>, !.returned = <<>>]

SentWithStoredToken(l) ==
    [l EXCEPT !.bearer = IF l.token = NoRow THEN 0 ELSE l.token.access_token]

\* a request to the remote API goes out:
\* .header("Authorization", format!("Bearer {}", access_token))
Sent(l) == [l EXCEPT !.bearer = l.access_token]

\* what a page request and its successful response add to the wire log
Logged(l, items, next) ==
    [Sent(l) EXCEPT !.requested = Append(@, l.page_token),
                    !.pages = Append(@, items),
                    !.returned = Append(@, next)]

AccumulateDedup(l, items, next) ==
    [Logged(l, items, next)
       EXCEPT !.items = @ \o SelectSeq(items,
                                LAMBDA x : \A i \in 1..Len(l.items) :
                                               l.items[i] # x),
              !.page_token = IF next = "" THEN @ ELSE next]

AccumulateStale(l, items, next) ==
    [Logged(l, items, next) EXCEPT !.items = @ \o items]

\* one turn of the loop on a successful response: the request went out with
\* the current page_token; all_*.extend(items); page_token = next if Some
Accumulate(l, items, next) ==
    [Logged(l, items, next)
       EXCEPT !.items = @ \o items,
              !.page_token = IF next = "" THEN @ ELSE next]

\* the request went out and failed: the fetch bails, all_* is dropped
FailedPage(l) == [Sent(l) EXCEPT !.requested = Append(@, l.page_token)]

\* the remote serves at most MaxPages pages to one fetch
MayContinue(l, resp) ==
    (resp.status = "ok" /\ resp.next # "") => Len(l.requested) + 1 < MaxPages

NewComment(v, thread, replies) ==
    [video_id |-> v, comment_id |-> thread.id, replies |-> replies,
     replied_to |-> FALSE]

RECURSIVE SkipEveryThread(_, _)
SkipEveryThread(l, v) ==
    IF l.idx < Len(l.threads)
    THEN SkipEveryThread([l EXCEPT !.idx = @ + 1,
                                   !.built = Append(@, NewComment(v,
                                                 l.threads[l.idx + 1], <<>>))],
                         v)
    ELSE l

\* fetch_comments' thread loop up to its next await: threads without replies
\* are pushed at once
RECURSIVE SkipNoReplies(_, _)
SkipNoReplies(l, v) ==
    IF l.idx < Len(l.threads) /\ l.threads[l.idx + 1].total_reply_count <= 0
    THEN SkipNoReplies([l EXCEPT !.idx = @ + 1,
                                 !.built = Append(@, NewComment(v,
                                               l.threads[l.idx + 1], <<>>))],
                       v)
    ELSE l

\* fetch_comments goes on from its thread loop: to the replies of the next
\* thread that has some; or, the threads done, to the merge loop; with no
\* comment at all every later loop is empty and it returns
BuildFrom(t, l0) ==
    LET l == SkipNoReplies(l0, call[t].video) IN
    IF l.idx < Len(l.threads)
    THEN /\ loc' = [loc EXCEPT ![t] = PagerReset(l)]
         /\ pc' = [pc EXCEPT ![t] = "replies_http"]
         /\ UNCHANGED result
    ELSE IF Len(l.built) = 0
         THEN FinishWith(t, Ok(<<>>), l)
         ELSE /\ loc' = [loc EXCEPT ![t] = [l EXCEPT !.idx = 0]]
              /\ pc' = [pc EXCEPT ![t] = "merge"]
              /\ UNCHANGED result

\* the row create("comments").content(comment) makes of a comment
CommentRow(rid, c) ==
    [rid |-> rid, video_id |-> c.video_id, comment_id |-> c.comment_id,
     replies |-> c.replies, replied_to |-> c.replied_to]

StoreWrittenWhilePaging(t) ==
    comments \cup {CommentRow(<<call[t].no, k>>, loc[t].built[k]) :
                     k \in 1..Len(loc[t].built)}

\* what gathering pages does to the comments table: the threads, the replies
\* and the comments built from them are held in local vectors only
StoreWhilePaging(t) == comments

\* fetch_comment_threads: one page request and its response
ThreadsPage(t) ==
    /\ pc[t] = "threads_http"
    /\ \E resp \in PageAnswers(RemoteThreads(call[t].video),
                               PageTokens(call[t].video)) :
         /\ MayContinue(loc[t], resp)
         /\ Served(call[t].video, loc[t], resp)
         /\ IF resp.status = "error"
            THEN FinishWith(t, Err("youtube_api"), FailedPage(loc[t]))
            ELSE LET l == Accumulate(loc[t], resp.items, resp.next) IN
                 IF resp.next # ""
                 THEN /\ loc' = [loc EXCEPT ![t] = l]
                      /\ UNCHANGED <<pc, result>>
                 ELSE IF call[t].op = "threads"
                      THEN FinishWith(t, Ok(l.items), l)
                      ELSE BuildFrom(t, [l EXCEPT !.threads = l.items,
                                                  !.idx = 0, !.built = <<>>])
    /\ comments' = StoreWhilePaging(t)
    /\ UNCHANGED <<now, auth_tokens, sessions, users, interactions,
                   call, nextTok, ncalls>>

\* the comment whose replies a task is fetching
ParentOf(t) ==
    IF call[t].op = "replies" THEN call[t].comment
    ELSE loc[t].threads[loc[t].idx + 1].id

ReplyOf(parent, id) == [reply_id |-> id, parent_id |-> parent]

\* fetch_replies: one page request and its response
RepliesPage(t) ==
    /\ pc[t] = "replies_http"
    /\ \E resp \in PageAnswers(RemoteReplies(ParentOf(t)),
                               PageTokens(ParentOf(t))) :
         /\ MayContinue(loc[t], resp)
         /\ Served(ParentOf(t), loc[t], resp)
         /\ IF resp.status = "error"
            THEN FinishWith(t, Err("youtube_api"), FailedPage(loc[t]))
            ELSE LET l == Accumulate(loc[t],
                                     [i \in 1..Len(resp.items) |->
                                        ReplyOf(ParentOf(t), resp.items[i])],
                                     resp.next) IN
                 IF resp.next # ""
                 THEN /\ loc' = [loc EXCEPT ![t] = l]
                      /\ UNCHANGED <<pc, result>>
                 ELSE IF call[t].op = "replies"
                      THEN FinishWith(t, Ok(l.items), l)
                      ELSE BuildFrom(t,
                             [l EXCEPT !.built = Append(@,
                                          NewComment(call[t].video,
                                                     l.threads[l.idx + 1],
                                                     l.items)),
                                       !.idx = @ + 1])
    /\ comments' = StoreWhilePaging(t)
    /\ UNCHANGED <<now, auth_tokens, sessions, users, interactions,
                   call, nextTok, ncalls>>

\* get_channel_videos: channels?mine=true
ChannelLookup(t) ==
    /\ pc[t] = "channel_http"
    /\ \E answer \in {"error", "no_items", "channel"} :
         IF answer = "channel"
         THEN /\ loc' = [loc EXCEPT ![t] = PagerReset(Sent(loc[t]))]
              /\ pc' = [pc EXCEPT ![t] = "videos_http"]
              /\ UNCHANGED result
         ELSE FinishWith(t, Err(IF answer = "error" THEN "youtube_api"
                                ELSE "no_channel"), Sent(loc[t]))
    /\ UNCHANGED <<now, auth_tokens, sessions, users, comments, interactions,
                   call, nextTok, ncalls>>

\* get_channel_videos: one search page request and its response
VideosPage(t) ==
    /\ pc[t] = "videos_http"
    /\ \E resp \in PageAnswers(RemoteVideos, PageTokens("channel")) :
         /\ MayContinue(loc[t], resp)
         /\ Served("channel", loc[t], resp)
         /\ IF resp.status = "error"
            THEN FinishWith(t, Err("youtube_api"), FailedPage(loc[t]))
            ELSE LET l == Accumulate(loc[t], resp.items, resp.next) IN
                 IF resp.next # ""
                 THEN /\ loc' = [loc EXCEPT ![t] = l]
                      /\ pc' = [pc EXCEPT ![t] = "videos_sleep"]
                      /\ UNCHANGED result
                 ELSE FinishWith(t, Ok(l.items), l)
    /\ UNCHANGED <<now, auth_tokens, sessions, users, comments, interactions,
                   call, nextTok, ncalls>>

\* get_channel_videos: time::sleep(100 ms) before the next page
VideosSleep(t) ==
    /\ pc[t] = "videos_sleep"
    /\ pc' = [pc EXCEPT ![t] = "videos_http"]
    /\ UNCHANGED <<now, auth_tokens, sessions, users, comments, interactions,
                   call, loc, result, nextTok, ncalls>>

AllIdle == \A s \in Tasks : Idle(s)

StartThreads(t) ==
    /\ Begin(t, [op |-> "threads", user |-> "", no |-> 0, video |-> "v2"],
             "threads_http")
    /\ UNCHANGED <<now, auth_tokens, nextTok>>
    /\ UNCHANGED otherTables

StartReplies(t) ==
    /\ Begin(t, [op |-> "replies", user |-> "", no |-> 0, comment |-> "c3"],
             "replies_http")
    /\ UNCHANGED <<now, auth_tokens, nextTok>>
    /\ UNCHANGED otherTables

StartVideos(t) ==
    /\ Begin(t, [op |-> "videos", user |-> "u1", no |-> 0], "gvat_load")
    /\ UNCHANGED <<now, auth_tokens, nextTok>>
    /\ UNCHANGED otherTables

\* the accounts are authenticated and their credentials are far from expiry
InitFresh ==
    /\ now = 0
    /\ auth_tokens = {[rid |-> InitAccessToken(u), user_id |-> u,
                       access_token |-> InitAccessToken(u),
                       refresh_token |-> RefreshTokenOf(u),
                       expires_at |-> InitExpiry("u2")] : u \in Users}
    /\ sessions = {}
    /\ users = {[id |-> u] : u \in Users}
    /\ comments = {}
    /\ interactions = {}
    /\ nextTok = 3
    /\ InitTasks

\* paginated fetches, one after another
PagerStep(t) ==
    \/ AllIdle /\ StartThreads(t)
    \/ AllIdle /\ StartReplies(t)
    \/ AllIdle /\ StartVideos(t)
    \/ GvatLoad(t)
    \/ ChannelLookup(t)
    \/ ThreadsPage(t)
    \/ RepliesPage(t)
    \/ VideosPage(t)
    \/ VideosSleep(t)

NextPager == \E t \in Tasks : PagerStep(t)

SpecPager == InitFresh /\ [][NextPager]_vars

\* ------------------------------------------------------------- pager claims
PagerOps == {"threads", "replies", "videos"}
PagerPcs == {"threads_http", "replies_http", "videos_http", "videos_sleep"}

\* a paginated fetch that returned its collection
Fetched(t) ==
    pc[t] = "done" /\ call[t].op \in PagerOps /\ result[t].status = "ok"

RECURSIVE Flatten(_)
Flatten(ps) == IF ps = <<>> THEN <<>> ELSE Head(ps) \o Flatten(Tail(ps))

NoDuplicates(q) == \A i, j \in 1..Len(q) : q[i] = q[j] => i = j

RECURSIVE SumLen(_)
SumLen(ps) == IF ps = <<>> THEN 0 ELSE Len(Head(ps)) + SumLen(Tail(ps))

Range(q) == {q[i] : i \in 1..Len(q)}

CommentRows(c) == {r \in comments : r.comment_id = c}

\* what db.get_comment may return: LIMIT 1 takes any one of the rows
FoundComments(c) ==
    IF CommentRows(c) = {} THEN {NoneValue}
    ELSE {[tag |-> "some", row |-> r] : r \in CommentRows(c)}

MergedNoCopy(comment, found) == comment

\* if let Some(db_comment) = .. { comment.replied_to = db_comment.replied_to }
Merged(comment, found) ==
    IF found.tag = "some"
    THEN [comment EXCEPT !.replied_to = found.row.replied_to]
    ELSE comment

\* a loop over `comments` moves on: to its next turn, or to what follows it
LoopOn(t, l, after) ==
    IF l.idx + 1 < Len(l.built)
    THEN /\ loc' = [loc EXCEPT ![t] = [l EXCEPT !.idx = @ + 1]]
         /\ UNCHANGED <<pc, result>>
    ELSE IF after = "done"
         THEN FinishWith(t, Ok(l.built), [l EXCEPT !.idx = @ + 1])
         ELSE /\ loc' = [loc EXCEPT ![t] = [l EXCEPT !.idx = 0]]
              /\ pc' = [pc EXCEPT ![t] = after]
              /\ UNCHANGED result

\* fetch_comments: one turn of "Update replied_to status from database";
\* a failed query ends the call
Merge(t) ==
    /\ pc[t] = "merge"
    /\ \/ \E found \in FoundComments(loc[t].built[loc[t].idx + 1].comment_id) :
            LoopOn(t, [loc[t] EXCEPT
                         !.built[loc[t].idx + 1] = Merged(@, found)],
                   "save")
       \/ Finish(t, Err("db"))
    /\ UNCHANGED <<now, auth_tokens, sessions, users, comments, interactions,
                   call, nextTok, ncalls>>

SavedNowhere(row) == comments

\* create("comments").content(comment): a new row next to the rows there are
Saved(row) == comments \cup {row}

\* save_comments: one turn of its loop, create("comments").content(comment);
\* a failed create ends the call and keeps the rows written so far
Save(t) ==
    /\ pc[t] = "save"
    /\ \/ /\ comments' = Saved(CommentRow(<<call[t].no, loc[t].idx + 1>>,
                                           loc[t].built[loc[t].idx + 1]))
          /\ LoopOn(t, loc[t], "record")
       \/ /\ Finish(t, Err("db"))
          /\ UNCHANGED comments
    /\ UNCHANGED <<now, auth_tokens, sessions, users, interactions,
                   call, nextTok, ncalls>>

Interaction(id, u, v, c, reply, kind, t_now) ==
    [id |-> id, user_id |-> u, video_id |-> v, comment_id |-> c,
     reply_id |-> reply, interaction_type |-> kind, timestamp |-> t_now]

RecordedOverwriting(rows) == rows

\* record_interaction: create("interactions").content(interaction)
Recorded(rows) == interactions \cup rows

ObservedOnlyNew(t) ==
    IF \E i \in interactions :
         i.comment_id = loc[t].built[loc[t].idx + 1].comment_id
    THEN {}
    ELSE {Interaction(<<call[t].no, loc[t].idx + 1>>, call[t].user,
                      call[t].video,
                      loc[t].built[loc[t].idx + 1].comment_id, 0,
                      "CommentReceived", now)}

\* the InteractionRecord fetch_comments writes for the comment of this turn
Observed(t) ==
    {Interaction(<<call[t].no, loc[t].idx + 1>>, call[t].user,
                 call[t].video,
                 loc[t].built[loc[t].idx + 1].comment_id, 0,
                 "CommentReceived", now)}

\* fetch_comments: one turn of "Record interaction for each comment";
\* db.record_interaction may fail, and `?` then ends the call
Record(t) ==
    /\ pc[t] = "record"
    /\ \/ /\ interactions' = Recorded(Observed(t))
          /\ LoopOn(t, loc[t], "done")
       \/ /\ Finish(t, Err("record_interaction"))
          /\ UNCHANGED interactions
    /\ UNCHANGED <<now, auth_tokens, sessions, users, comments,
                   call, nextTok, ncalls>>

PostRejectedMarks(t) ==
    /\ FinishWith(t, Err("youtube_api"), Sent(loc[t]))
    /\ comments' = {IF r.comment_id = call[t].comment
                    THEN [r EXCEPT !.replied_to = TRUE] ELSE r : r \in comments}
    /\ UNCHANGED interactions

\* post_reply: the request failed or was answered with a non-success
\* status; `?` or bail! ends the call
PostRejected(t) ==
    /\ FinishWith(t, Err("youtube_api"), Sent(loc[t]))
    /\ UNCHANGED <<comments, interactions>>

\* post_reply: the POST to /comments and its response
PostHttp(t) ==
    /\ pc[t] = "post_http"
    /\ \/ /\ loc' = [loc EXCEPT ![t] =
                          [Sent(loc[t]) EXCEPT !.reply_id = call[t].no]]
          /\ pc' = [pc EXCEPT ![t] = "post_mark"]
          /\ UNCHANGED <<result, comments, interactions>>
       \/ PostRejected(t)
    /\ UNCHANGED <<now, auth_tokens, sessions, users,
                   call, nextTok, ncalls>>

MarkRepliedToggling(c, replied) ==
    {IF r.comment_id = c THEN [r EXCEPT !.replied_to = ~@] ELSE r :
       r \in comments}

\* mark_comment_replied: UPDATE comments SET replied_to = $replied WHERE ..
MarkReplied(c, replied) ==
    {IF r.comment_id = c THEN [r EXCEPT !.replied_to = replied] ELSE r :
       r \in comments}

\* post_reply: db.mark_comment_replied(comment_id, true)
PostMark(t) ==
    /\ pc[t] = "post_mark"
    /\ \/ /\ comments' = MarkReplied(call[t].comment, TRUE)
          /\ pc' = [pc EXCEPT ![t] = "post_record"]
          /\ UNCHANGED <<loc, result>>
       \/ /\ Finish(t, Err("db"))
          /\ UNCHANGED comments
    /\ UNCHANGED <<now, auth_tokens, sessions, users, interactions,
                   call, nextTok, ncalls>>

PostedTwice(t) ==
    {Interaction(<<call[t].no, k>>, call[t].user, "", call[t].comment,
                 loc[t].reply_id, "ReplyPosted", now) : k \in {0, 1}}

\* the InteractionRecord post_reply writes
Posted(t) ==
    {Interaction(<<call[t].no, 0>>, call[t].user, "", call[t].comment,
                 loc[t].reply_id, "ReplyPosted", now)}

\* post_reply: db.record_interaction, then Ok(reply); a failed write ends
\* the call with the error
PostRecord(t) ==
    /\ pc[t] = "post_record"
    /\ \/ /\ interactions' = Recorded(Posted(t))
          /\ Finish(t, Ok(ReplyOf(call[t].comment, loc[t].reply_id)))
       \/ /\ Finish(t, Err("record_interaction"))
          /\ UNCHANGED interactions
    /\ UNCHANGED <<now, auth_tokens, sessions, users, comments,
                   call, nextTok, ncalls>>

\* GET /comments/v1 misses the local store, or the monitor polls the video
StartSync(t) ==
    /\ Begin(t, [op |-> "sync", user |-> "u1", no |-> 0, video |-> "v1"],
             "gvat_load")
    /\ UNCHANGED <<now, auth_tokens, nextTok>>
    /\ UNCHANGED otherTables

\* POST /reply/post for comment c1
StartPost(t) ==
    /\ Begin(t, [op |-> "post", user |-> "u1", no |-> 0, comment |-> "c1"],
             "gvat_load")
    /\ UNCHANGED <<now, auth_tokens, nextTok>>
    /\ UNCHANGED otherTables

SyncStep(t) ==
    \/ GvatLoad(t)
    \/ ThreadsPage(t)
    \/ Merge(t)
    \/ Save(t)
    \/ Record(t)
    \/ PostHttp(t)
    \/ PostMark(t)
    \/ PostRecord(t)

\* syncs of video v1 and replies to its comment, served concurrently
NextSync == \E t \in Tasks : StartSync(t) \/ StartPost(t) \/ SyncStep(t)

SpecSync == InitFresh /\ [][NextSync]_vars

\* the same requests, each served to its end before the next one arrives
NextSyncSeq ==
    \E t \in Tasks :
        \/ AllIdle /\ StartSync(t)
        \/ AllIdle /\ StartPost(t)
        \/ SyncStep(t)

SpecSyncSeq == InitFresh /\ [][NextSyncSeq]_vars

\* ------------------------------------------------- sync and post: properties
SyncComments == {"c1"}

Replied(rows, c) == \E r \in rows : r.comment_id = c /\ r.replied_to

\* task t's sync returns in this step
SyncReturns(t) ==
    /\ call[t].op = "sync"
    /\ pc[t] # "done"
    /\ pc'[t] = "done"
    /\ result'[t].status = "ok"

ReturnedEntities(t, c) ==
    {result'[t].value[i] : i \in {j \in 1..Len(result'[t].value) :
                                    result'[t].value[j].comment_id = c}}

\* C2: with the calls served one after another, once a comment is stored with
\* replied_to = true, every step of a later sync of its video leaves all its
\* stored rows with replied_to = true, and the sync returns it with
\* replied_to = true.
C2_ResyncKeepsReplied ==
    [][\A c \in SyncComments :
         Replied(comments, c) =>
             /\ \A r \in comments' : r.comment_id = c => r.replied_to
             /\ \A t \in Tasks :
                  SyncReturns(t) =>
                      \A e \in ReturnedEntities(t, c) : e.replied_to]_vars

\* a re-sync has returned c1 as replied, and both stored rows of c1 say so
C2_Witness ==
    \E t \in Tasks :
        /\ pc[t] = "done"
        /\ call[t].op = "sync"
        /\ result[t].status = "ok"
        /\ Len(result[t].value) = 1
        /\ result[t].value[1].comment_id = "c1"
        /\ result[t].value[1].replied_to
        /\ Cardinality(CommentRows("c1")) >= 2
        /\ \A r \in CommentRows("c1") : r.replied_to

\* C3: under any interleaving of a sync with a post on a comment of the same
\* video, once a stored row of the comment has replied_to = true, no step
\* leaves a stored row of that comment with replied_to = false.
C3_NeverPersistsUnreplied ==
    [][\A c \in SyncComments :
         Replied(comments, c) =>
             \A r \in comments' : r.comment_id = c => r.replied_to]_vars

PostOk(t) ==
    /\ call[t].op = "post"
    /\ pc[t] = "done"
    /\ result[t].status = "ok"

\* the ReplyPosted records in the ledger for the reply that call t posted
PostedFor(t) ==
    {i \in interactions : /\ i.interaction_type = "ReplyPosted"
                          /\ i.reply_id = loc[t].reply_id}

\* the records a call wrote: its fresh ids carry the number of the call
WrittenBy(t) == {i \in interactions : i.id[1] = call[t].no}

\* C10: a post_reply call that returned Ok has written exactly one record to
\* the ledger; the record is of type ReplyPosted and carries the call's user,
\* its comment id and the id of the reply it returns.  A call that has not
\* returned Ok has written none.
C10_OneReplyPosted ==
    \A t \in Tasks :
        call[t].op = "post" =>
            IF PostOk(t)
            THEN /\ Cardinality(WrittenBy(t)) = 1
                 /\ PostedFor(t) = WrittenBy(t)
                 /\ \A i \in WrittenBy(t) :
                      /\ i.user_id = call[t].user
                      /\ i.comment_id = call[t].comment
                      /\ i.reply_id = result[t].value.reply_id
            ELSE WrittenBy(t) = {}

\* two posts on c1 have both returned Ok
C10_Witness ==
    /\ \A t \in Tasks : PostOk(t)
    /\ Cardinality({i \in interactions :
                      i.interaction_type = "ReplyPosted"}) = 2

\* C11: the step of post_reply that marks the comment leaves every stored row
\* of the comment with replied_to = true, whatever it was before, and changes
\* no other row and no other field; when the rows were already true (a
\* second post on the comment) the store is left exactly as it was.  No
\* other step of post_reply touches the comments.
C11_MarkIsIdempotent ==
    [][\A t \in Tasks :
         (call[t].op = "post" /\ pc[t] # pc'[t]) =>
             IF pc[t] = "post_mark" /\ pc'[t] = "post_record"
             THEN /\ \A r \in comments' :
                       r.comment_id = call[t].comment => r.replied_to
                  /\ {[r EXCEPT !.replied_to = TRUE] : r \in comments}
                       = {[r EXCEPT !.replied_to = TRUE] : r \in comments'}
                  /\ \A r \in comments :
                       r.comment_id # call[t].comment => r \in comments'
                  /\ (\A r \in CommentRows(call[t].comment) : r.replied_to)
                       => comments' = comments
             ELSE comments' = comments]_vars

\* a sync stored c1 unreplied, and two posts on c1 both returned Ok: the
\* stored comment is replied
C11_Witness ==
    /\ Cardinality({i \in interactions :
                      i.interaction_type = "ReplyPosted"}) = 2
    /\ CommentRows("c1") # {}
    /\ \A r \in CommentRows("c1") : r.replied_to
    /\ \E t \in Tasks : PostOk(t)

\* C12: a post_reply call whose reply the remote accepted never returns the
\* error of the ledger write: a failed record_interaction leaves the result
\* Ok.
C12_LedgerFailureStillOk ==
    \A t \in Tasks :
        (call[t].op = "post" /\ pc[t] = "done" /\ loc[t].reply_id # 0) =>
            result[t] # Err("record_interaction")

\* C13: no step removes or changes a record of the ledger.
C13_LedgerAppendOnly == [][interactions \subseteq interactions']_vars

\* the ledger holds the records of a sync and of a later post
C13_Witness ==
    \E i, j \in interactions :
        /\ i.interaction_type = "CommentReceived"
        /\ j.interaction_type = "ReplyPosted"
        /\ i.id[1] < j.id[1]

\* the rows of the comments table that a call wrote
RowsBy(t) == {r \in comments : r.rid[1] = call[t].no}

\* C14: a sync that has appended a record to the ledger has stored every
\* comment it built before; so every CommentReceived record of the ledger
\* names a comment that is in the comments table.
C14_StoredBeforeObserved ==
    /\ \A t \in Tasks :
         (call[t].op = "sync" /\ WrittenBy(t) # {}) =>
             \A k \in 1..Len(loc[t].built) :
                 \E r \in RowsBy(t) :
                     /\ r.rid = <<call[t].no, k>>
                     /\ r.comment_id = loc[t].built[k].comment_id
    /\ \A i \in interactions :
         i.interaction_type = "CommentReceived" =>
             CommentRows(i.comment_id) # {}

\* a sync of v3 has appended the first of its records, for c4, and both
\* its comments are stored
C14_Witness ==
    \E t \in Tasks :
        /\ call[t].op = "sync"
        /\ pc[t] = "record"
        /\ Cardinality(WrittenBy(t)) = 1
        /\ \E i \in WrittenBy(t) : /\ i.interaction_type = "CommentReceived"
                                    /\ i.comment_id = "c4"
        /\ Cardinality(RowsBy(t)) = 2

\* C15: the comments table holds at most one row per comment id.
C15_OneRowPerComment ==
    \A r, q \in comments : r.comment_id = q.comment_id => r = q

\* ------------------------------------------- sync of a video with replies
\* the monitor polls video v3, or video v0 that has no comments
StartSyncPaged(t) ==
    /\ \E v \in {"v0", "v3"} :
         Begin(t, [op |-> "sync", user |-> "u1", no |-> 0, video |-> v],
               "gvat_load")
    /\ UNCHANGED <<now, auth_tokens, nextTok>>
    /\ UNCHANGED otherTables

SyncPagedStep(t) ==
    \/ AllIdle /\ StartSyncPaged(t)
    \/ GvatLoad(t)
    \/ ThreadsPage(t)
    \/ RepliesPage(t)
    \/ Merge(t)
    \/ Save(t)
    \/ Record(t)

\* syncs of video v3, one after another
NextSyncPaged == \E t \in Tasks : SyncPagedStep(t)

SpecSyncPaged == InitFresh /\ [][NextSyncPaged]_vars

SyncOk(t) ==
    /\ call[t].op = "sync"
    /\ pc[t] = "done"
    /\ result[t].status = "ok"

\* C16: a sync that returned Ok has written to the ledger exactly one record
\* per comment of the list it returns and nothing else: record k is of type
\* CommentReceived and carries the call's user and video and the id of the
\* k-th comment, whether or not an earlier sync recorded that comment.
C16_OneObservedPerComment ==
    \A t \in Tasks :
        SyncOk(t) =>
            /\ Cardinality(WrittenBy(t)) = Len(result[t].value)
            /\ \A k \in 1..Len(result[t].value) :
                 \E i \in WrittenBy(t) :
                     /\ i.id = <<call[t].no, k>>
                     /\ i.interaction_type = "CommentReceived"
                     /\ i.user_id = call[t].user
                     /\ i.video_id = call[t].video
                     /\ i.comment_id = result[t].value[k].comment_id
                     /\ i.reply_id = 0

\* a second sync of v3 has returned its two comments; the ledger holds two
\* records of each
C16_Witness ==
    \E t \in Tasks :
        /\ SyncOk(t)
        /\ call[t].no = 2
        /\ Len(result[t].value) = 2
        /\ Cardinality(interactions) = 4

RepliesOf(c) ==
    [k \in 1..Len(RemoteOrder(c)) |-> ReplyOf(c, RemoteOrder(c)[k])]

SyncPcs == {"threads_http", "replies_http", "merge", "save", "record"}

\* C17: a sync asks for the replies of a thread only when the threads are
\* all fetched and the thread's reply count is above 0; the comments it has
\* built are those of the threads before the current one, in thread order,
\* a thread without replies with an empty reply list; and the list it
\* returns has one comment per remote thread, in thread order, the comment
\* with replies carrying all its replies in page order.
C17_OneCommentPerThread ==
    \A t \in Tasks :
        call[t].op = "sync" =>
            /\ pc[t] = "replies_http" =>
                 /\ loc[t].idx < Len(loc[t].threads)
                 /\ loc[t].threads[loc[t].idx + 1].total_reply_count > 0
                 /\ Len(loc[t].built) = loc[t].idx
            /\ pc[t] \in {"replies_http", "merge", "save", "record"} =>
                 /\ loc[t].threads = RemoteOrder(call[t].video)
                 /\ \A k \in 1..Len(loc[t].built) :
                      /\ loc[t].built[k].comment_id = loc[t].threads[k].id
                      /\ loc[t].threads[k].total_reply_count = 0
                           => loc[t].built[k].replies = <<>>
            /\ (pc[t] \in {"merge", "save", "record"} \/ SyncOk(t)) =>
                 /\ Len(loc[t].built) = Len(loc[t].threads)
                 /\ (/\ Len(loc[t].threads) > 0
                     /\ loc[t].threads[Len(loc[t].threads)].total_reply_count
                          > 0)
                      => loc[t].built[Len(loc[t].built)].replies
                           = Flatten(loc[t].pages)
            /\ SyncOk(t) =>
                 /\ Len(result[t].value) = Len(RemoteOrder(call[t].video))
                 /\ \A k \in 1..Len(result[t].value) :
                      LET c == RemoteOrder(call[t].video)[k] IN
                      /\ result[t].value[k].comment_id = c.id
                      /\ result[t].value[k].video_id = call[t].video
                      /\ result[t].value[k].replies = RepliesOf(c.id)

\* a sync of v3 returned c4 without replies and c5 with the two replies it
\* fetched on two reply pages
C17_Witness ==
    \E t \in Tasks :
        /\ SyncOk(t)
        /\ Len(result[t].value) = 2
        /\ result[t].value[1].replies = <<>>
        /\ Len(result[t].value[2].replies) = 2
        /\ Len(loc[t].pages) = 2

\* C18: while a sync is still fetching thread or reply pages, and when it
\* has ended because a page request failed, it has written no row to the
\* comments table and no record to the ledger, and the failed call returns
\* the error and none of the items it gathered.
C18_FailedFetchWritesNothing ==
    \A t \in Tasks :
        call[t].op = "sync" =>
            /\ (pc[t] \in {"threads_http", "replies_http"}
                 \/ (pc[t] = "done" /\ result[t] = Err("youtube_api"))) =>
                   /\ RowsBy(t) = {}
                   /\ WrittenBy(t) = {}
            /\ (pc[t] = "done" /\ Len(loc[t].requested) > Len(loc[t].pages))
                 => result[t] = Err("youtube_api")

\* the second reply page of c5 failed, after the threads and the first reply
\* page were gathered
C18_Witness ==
    \E t \in Tasks :
        /\ call[t].op = "sync"
        /\ pc[t] = "done"
        /\ result[t] = Err("youtube_api")
        /\ Len(loc[t].threads) = 2
        /\ Len(loc[t].pages) = 1
        /\ Len(loc[t].requested) = 2

HttpPcs == {"threads_http", "replies_http", "videos_http"}

\* C19: a task that has sent a page request and goes on with the same paged
\* resource is not ready to send the next request at once: the delay step
\* comes first.
C19_DelayBetweenPages ==
    [][\A t \in Tasks :
         (/\ pc[t] \in HttpPcs
          /\ loc'[t].requested = Append(loc[t].requested, loc[t].page_token)
          /\ pc'[t] # "done")
             => pc'[t] \notin HttpPcs]_vars

\* C33: the step in which post_reply gets a failure of its submission ends
\* the call with an error and changes neither comments nor interactions; no
\* earlier step of the call wrote either, and the finished call has written
\* no InteractionRecord.
C33_RejectedPostHasNoEffect ==
    [][\A t \in Tasks :
        (call[t].op = "post" /\ pc'[t] # pc[t]) =>
          /\ (pc[t] \in {"gvat_load", "post_http"})
                => UNCHANGED <<comments, interactions>>
          /\ (pc[t] = "post_http" /\ pc'[t] = "done")
                => /\ result'[t] = Err("youtube_api")
                   /\ WrittenBy(t) = {}
      ]_vars

\* a reply to c1 was refused by the remote API: c1 is stored and still not
\* replied to, and the ledger has no ReplyPosted record
C33_Witness ==
    \E t \in Tasks :
        /\ pc[t] = "done" /\ call[t].op = "post"
        /\ result[t] = Err("youtube_api")
        /\ CommentRows("c1") # {}
        /\ \A r \in CommentRows("c1") : ~r.replied_to
        /\ \A i \in interactions : i.interaction_type # "ReplyPosted"

\* ========================================================== ledger queries
\* the orders a SELECT may return the rows of S in
Orderings(S) ==
    {f \in [1..Cardinality(S) -> S] : \A x \in S : \E k \in DOMAIN f : f[k] = x}

\* ORDER BY timestamp ASC: rows of one timestamp come in any order
OrderedAsc(S) ==
    {f \in Orderings(S) :
        \A j, k \in DOMAIN f : j < k => f[j].timestamp <= f[k].timestamp}

\* ORDER BY timestamp DESC
OrderedDesc(S) ==
    {f \in Orderings(S) :
        \A j, k \in DOMAIN f : j < k => f[j].timestamp >= f[k].timestamp}

\* LIMIT n
Limited(f, n) == SubSeq(f, 1, IF n < Len(f) THEN n ELSE Len(f))

UserInteractionsOldestFirst(u, limit) ==
    {Limited(f, limit) : f \in OrderedAsc({i \in interactions : i.user_id = u})}

\* SELECT * FROM interactions WHERE user_id = $user_id
\*   ORDER BY timestamp DESC LIMIT $limit
UserInteractions(u, limit) ==
    {Limited(f, limit) : f \in OrderedDesc({i \in interactions : i.user_id = u})}

CommentInteractionsNewestFirst(c) ==
    OrderedDesc({i \in interactions : i.comment_id = c})

\* SELECT * FROM interactions WHERE comment_id = $comment_id
\*   ORDER BY timestamp ASC
CommentInteractions(c) ==
    OrderedAsc({i \in interactions : i.comment_id = c})

\* the limits asked for; 100 is what get_history asks for by default
Limits == {1, 2, 100}

\* db.get_user_interactions(user_id, limit)
GetUserInteractions(t) ==
    /\ pc[t] = "user_interactions"
    /\ pc' = [pc EXCEPT ![t] = "done"]
    /\ \/ \E r \in UserInteractions(call[t].user, call[t].limit) :
            result' = [result EXCEPT ![t] = Ok(r)]
       \/ result' = [result EXCEPT ![t] = Err("db")]
    /\ UNCHANGED <<now, auth_tokens, sessions, users, comments, interactions,
                   call, loc, nextTok, ncalls>>

\* db.get_comment_interactions(comment_id)
GetCommentInteractions(t) ==
    /\ pc[t] = "comment_interactions"
    /\ pc' = [pc EXCEPT ![t] = "done"]
    /\ \/ \E r \in CommentInteractions(call[t].comment) :
            result' = [result EXCEPT ![t] = Ok(r)]
       \/ result' = [result EXCEPT ![t] = Err("db")]
    /\ UNCHANGED <<now, auth_tokens, sessions, users, comments, interactions,
                   call, loc, nextTok, ncalls>>

StartUserInteractions(t) ==
    /\ \E u \in Users, n \in Limits :
         Begin(t, [op |-> "user_interactions", user |-> u, no |-> 0,
                   limit |-> n], "user_interactions")
    /\ UNCHANGED <<now, auth_tokens, nextTok>>
    /\ UNCHANGED otherTables

StartCommentInteractions(t) ==
    /\ \E c \in {"c1", "c2"} :
         Begin(t, [op |-> "comment_interactions", user |-> "", no |-> 0,
                   comment |-> c], "comment_interactions")
    /\ UNCHANGED <<now, auth_tokens, nextTok>>
    /\ UNCHANGED otherTables

\* account u2 has observed comment c2 of its video before
InitLedger ==
    /\ now = 0
    /\ auth_tokens = {[rid |-> InitAccessToken(u), user_id |-> u,
                       access_token |-> InitAccessToken(u),
                       refresh_token |-> RefreshTokenOf(u),
                       expires_at |-> InitExpiry("u2")] : u \in Users}
    /\ sessions = {}
    /\ users = {[id |-> u] : u \in Users}
    /\ comments = {}
    /\ interactions = {Interaction(<<0, 1>>, "u2", "v2", "c2", 0,
                                   "CommentReceived", 0)}
    /\ nextTok = 3
    /\ InitTasks

\* syncs, replies and ledger queries, one after another, while time passes
NextLedger ==
    \/ Tick
    \/ \E t \in Tasks :
         \/ AllIdle /\ StartSync(t)
         \/ AllIdle /\ StartPost(t)
         \/ AllIdle /\ StartUserInteractions(t)
         \/ AllIdle /\ StartCommentInteractions(t)
         \/ SyncStep(t)
         \/ GetUserInteractions(t)
         \/ GetCommentInteractions(t)

SpecLedger == InitLedger /\ [][NextLedger]_vars

\* C29: get_user_interactions(u, limit) returns records of u only, each
\* once, newest first, min(limit, number of u's records) of them, and no
\* record of u it leaves out is newer than one it returns; it writes nothing.
C29_NewestOfAccount ==
    [][\A t \in Tasks :
        (/\ pc[t] = "user_interactions" /\ pc'[t] = "done"
         /\ result'[t].status = "ok") =>
            LET r == result'[t].value
                mine == {i \in interactions : i.user_id = call[t].user}
            IN  /\ Range(r) \subseteq mine
                /\ \A j, k \in DOMAIN r :
                      j < k => /\ r[j] # r[k]
                               /\ r[j].timestamp >= r[k].timestamp
                /\ Len(r) = IF call[t].limit < Cardinality(mine)
                             THEN call[t].limit ELSE Cardinality(mine)
                /\ \A x \in mine \ Range(r) : \A k \in DOMAIN r :
                      x.timestamp <= r[k].timestamp
                /\ interactions' = interactions
      ]_vars

\* a query with limit 1 returned the newer of two records of u1, the ledger
\* holding a record of u2 as well
C29_Witness ==
    \E t \in Tasks :
        /\ pc[t] = "done" /\ call[t].op = "user_interactions"
        /\ call[t].user = "u1" /\ call[t].limit = 1
        /\ result[t].status = "ok" /\ Len(result[t].value) = 1
        /\ result[t].value[1] \in interactions
        /\ \E x \in interactions :
              x.user_id = "u1" /\ x.timestamp < result[t].value[1].timestamp
        /\ \E y \in interactions : y.user_id = "u2"

\* C30: get_comment_interactions(c) returns every record of comment c, each
\* once, and no other, oldest first: a CommentReceived record comes before
\* every ReplyPosted record of a later timestamp.
C30_ChronologyOfComment ==
    [][\A t \in Tasks :
        (/\ pc[t] = "comment_interactions" /\ pc'[t] = "done"
         /\ result'[t].status = "ok") =>
            LET r == result'[t].value
                its == {i \in interactions : i.comment_id = call[t].comment}
            IN  /\ Range(r) = its
                /\ Len(r) = Cardinality(its)
                /\ \A j, k \in DOMAIN r :
                      j < k => r[j].timestamp <= r[k].timestamp
                /\ \A j, k \in DOMAIN r :
                      (/\ r[j].interaction_type = "CommentReceived"
                       /\ r[k].interaction_type = "ReplyPosted"
                       /\ r[j].timestamp < r[k].timestamp) => j < k
                /\ interactions' = interactions
      ]_vars

\* the history of c1 was returned: the record of a sync, then the record of
\* a later reply; the record of c2 is in the ledger and not in the answer
C30_Witness ==
    \E t \in Tasks :
        /\ pc[t] = "done" /\ call[t].op = "comment_interactions"
        /\ call[t].comment = "c1"
        /\ result[t].status = "ok" /\ Len(result[t].value) = 2
        /\ result[t].value[1].interaction_type = "CommentReceived"
        /\ result[t].value[2].interaction_type = "ReplyPosted"
        /\ result[t].value[1].timestamp < result[t].value[2].timestamp
        /\ \E y \in interactions : y.comment_id = "c2"

\* ================================================================ HTTP API
\* the x-session-id header of a request: absent, or any string
NoHeader == "absent"

Headers == {NoHeader, "s1", "s2", "s3", "s9", "u1"}

\* session s1 of u1 is valid, s2 was ended, s3 has expired; s9 is the id of
\* no session
InitApi ==
    /\ now = 1
    /\ auth_tokens = {[rid |-> InitAccessToken(u), user_id |-> u,
                       access_token |-> InitAccessToken(u),
                       refresh_token |-> RefreshTokenOf(u),
                       expires_at |-> InitExpiry("u2")] : u \in Users}
    /\ sessions = {NewSession("s1", "u1", 0),
                   [NewSession("s2", "u1", 0) EXCEPT !.is_active = FALSE],
                   [NewSession("s3", "u1", 0) EXCEPT !.expires_at = 0]}
    /\ users = {[id |-> u] : u \in Users}
    /\ comments = {}
    /\ interactions = {}
    /\ nextTok = 3
    /\ InitTasks

\* get_user_id_from_headers: the value of the header, as it is
UserIdFromHeaders(h) ==
    IF h = NoHeader THEN NoneValue ELSE [tag |-> "some", user_id |-> h]

\* a request arrives with header h; without a user id the handler answers
\* 401 at once, with one it calls the service (or the database) as that user
ApiArrive(t, h, c, first) ==
    IF UserIdFromHeaders(h).tag = "none"
    THEN /\ Idle(t)
         /\ \A s \in Tasks : s < t => ~Idle(s)
         /\ ncalls < MaxCalls
         /\ ncalls' = ncalls + 1
         /\ call' = [call EXCEPT ![t] = [c EXCEPT !.no = ncalls + 1]]
         /\ loc' = [loc EXCEPT ![t] = LocInit]
         /\ result' = [result EXCEPT ![t] = Err("unauthorized")]
         /\ pc' = [pc EXCEPT ![t] = "done"]
    ELSE Begin(t, [c EXCEPT !.user = UserIdFromHeaders(h).user_id], first)

\* POST /api/reply/post for comment c1
ApiPostReply(t) ==
    /\ \E h \in Headers :
         ApiArrive(t, h, [op |-> "api_post", user |-> "", no |-> 0,
                          header |-> h, comment |-> "c1"], "gvat_load")
    /\ UNCHANGED <<now, auth_tokens, nextTok>>
    /\ UNCHANGED otherTables

\* GET /api/videos
ApiGetVideos(t) ==
    /\ \E h \in Headers :
         ApiArrive(t, h, [op |-> "api_videos", user |-> "", no |-> 0,
                          header |-> h], "gvat_load")
    /\ UNCHANGED <<now, auth_tokens, nextTok>>
    /\ UNCHANGED otherTables

\* GET /api/history
ApiGetHistory(t) ==
    /\ \E h \in Headers :
         ApiArrive(t, h, [op |-> "api_history", user |-> "", no |-> 0,
                          header |-> h, limit |-> 100], "api_history")
    /\ UNCHANGED <<now, auth_tokens, nextTok>>
    /\ UNCHANGED otherTables

\* get_history: db.get_user_interactions(user_id, limit) and the response
ApiHistory(t) ==
    /\ pc[t] = "api_history"
    /\ pc' = [pc EXCEPT ![t] = "done"]
    /\ \/ \E r \in UserInteractions(call[t].user, call[t].limit) :
            result' = [result EXCEPT ![t] = Ok(r)]
       \/ result' = [result EXCEPT ![t] = Err("internal_server_error")]
    /\ UNCHANGED <<now, auth_tokens, sessions, users, comments, interactions,
                   call, loc, nextTok, ncalls>>

HandlerPostedGenerated(t) ==
    {Interaction(<<call[t].no, 1>>, call[t].user, "", call[t].comment,
                 "", "ReplyGenerated", now)}

\* the InteractionRecord the post_reply handler writes after the service
\* has returned the reply
HandlerPosted(t) ==
    {Interaction(<<call[t].no, 1>>, call[t].user, "", call[t].comment,
                 result[t].value.reply_id, "ReplyPosted", now)}

\* Err(e) => Err(StatusCode::INTERNAL_SERVER_ERROR), whatever e is
HandlerAnswer(r) ==
    IF r.status = "err" THEN Err("internal_server_error") ELSE r

\* the handler's match on what the service returned: an error becomes 500;
\* post_reply records the interaction, logs a failure of that write, and
\* answers with the reply; get_videos answers with the videos
ApiReturn(t) ==
    /\ pc[t] = "api_return"
    /\ pc' = [pc EXCEPT ![t] = "done"]
    /\ IF result[t].status = "err"
       THEN /\ result' = [result EXCEPT ![t] = HandlerAnswer(@)]
            /\ UNCHANGED interactions
       ELSE /\ result' = [result EXCEPT ![t] = HandlerAnswer(@)]
            /\ IF call[t].op = "api_post"
               THEN \/ interactions' = Recorded(HandlerPosted(t))
                    \/ UNCHANGED interactions
               ELSE UNCHANGED interactions
    /\ UNCHANGED <<now, auth_tokens, sessions, users, comments,
                   call, loc, nextTok, ncalls>>

ApiStep(t) ==
    \/ AllIdle /\ ApiPostReply(t)
    \/ AllIdle /\ ApiGetVideos(t)
    \/ AllIdle /\ ApiGetHistory(t)
    \/ GvatLoad(t)
    \/ PostHttp(t)
    \/ PostMark(t)
    \/ PostRecord(t)
    \/ ChannelLookup(t)
    \/ VideosPage(t)
    \/ VideosSleep(t)
    \/ ApiHistory(t)
    \/ ApiReturn(t)

\* requests to the session-authenticated entry points, one after another
NextApi == \E t \in Tasks : ApiStep(t)

SpecApi == InitApi /\ [][NextApi]_vars

\* the sessions validate_session accepts for a header
AcceptedSessions(h) ==
    {x \in sessions : /\ x.id = h
                      /\ SessionAccepted(x, now)
                      /\ UserRows(x.user_id) # {}}

\* C20: a request to a session-authenticated entry point that was not
\* answered 'unauthorized' carries the id of a session that
\* validate_session accepts, and the account it acts on is the owner of
\* that session.
C20_SessionValidated ==
    \A t \in Tasks :
        (call[t].op \in ApiOps /\ result[t] # Err("unauthorized")) =>
            \E x \in AcceptedSessions(call[t].header) :
                call[t].user = x.user_id

\* C38: when the post_reply handler gets the reply from the service, the
\* service's ReplyPosted record of that reply is stored, the handler adds at
\* most one record, a ReplyPosted record of the same reply, comment and
\* user, and answers with the reply whether or not its record was written;
\* when the service failed the handler writes nothing.
C38_HandlerRecordsAgain ==
    [][\A t \in Tasks :
        (pc[t] = "api_return" /\ pc'[t] = "done" /\ call[t].op = "api_post")
          => IF result[t].status = "ok"
             THEN /\ result'[t] = result[t]
                  /\ \E i \in interactions :
                        /\ i.id = <<call[t].no, 0>>
                        /\ i.interaction_type = "ReplyPosted"
                        /\ i.reply_id = result[t].value.reply_id
                  /\ \/ interactions' = interactions
                     \/ \E j \in interactions' \ interactions :
                           /\ interactions' = interactions \cup {j}
                           /\ j.interaction_type = "ReplyPosted"
                           /\ j.reply_id = result[t].value.reply_id
                           /\ j.comment_id = call[t].comment
                           /\ j.user_id = call[t].user
             ELSE /\ interactions' = interactions
                  /\ result'[t].status = "err"
      ]_vars

\* a request answered with the reply left two ReplyPosted records of it
C38_Witness ==
    \E t \in Tasks :
        /\ pc[t] = "done" /\ call[t].op = "api_post"
        /\ result[t].status = "ok"
        /\ Cardinality({i \in interactions :
                          /\ i.interaction_type = "ReplyPosted"
                          /\ i.reply_id = result[t].value.reply_id}) = 2

\* ========================================================= remote requests
\* the credential operations and a paginated fetch
RemoteStep(t) ==
    \/ AllIdle /\ StartEnsure(t)
    \/ AllIdle /\ StartExchange(t)
    \/ AllIdle /\ StartThreads(t)
    \/ GvatLoad(t)
    \/ RefreshResponseAny(t)
    \/ SaveTokenDelete(t)
    \/ SaveTokenCreate(t)
    \/ ExchangeResponse(t)
    \/ ThreadsPage(t)

\* the credential of u1 is due for refresh, that of u2 is not
InitRemote ==
    /\ now = 1
    /\ auth_tokens = {[rid |-> InitAccessToken(u), user_id |-> u,
                       access_token |-> InitAccessToken(u),
                       refresh_token |-> RefreshTokenOf(u),
                       expires_at |-> InitExpiry(u)] : u \in Users}
    /\ sessions = {}
    /\ users = {[id |-> u] : u \in Users}
    /\ comments = {}
    /\ interactions = {}
    /\ nextTok = 3
    /\ InitTasks

\* the operations one after another, against any provider
NextRemote == \E t \in Tasks : RemoteStep(t)

SpecRemote == InitRemote /\ [][NextRemote]_vars

\* GET /api/videos, the credential of the account being due for refresh
VideosStep(t) ==
    \/ AllIdle /\ ApiGetVideos(t)
    \/ GvatLoad(t)
    \/ RefreshResponseAny(t)
    \/ SaveTokenDelete(t)
    \/ SaveTokenCreate(t)
    \/ ChannelLookup(t)
    \/ VideosPage(t)
    \/ VideosSleep(t)
    \/ ApiReturn(t)

NextVideos == \E t \in Tasks : VideosStep(t)

SpecVideos == InitRemote /\ [][NextVideos]_vars

\* C26: when the provider's token response has no refresh_token, the
\* credential refresh_token returns carries the refresh token the request
\* was made with, and the row get_valid_access_token then stores carries
\* the refresh token the account had from the start.
C26_OmittedKeepsRefreshToken ==
    [][\A t \in Tasks :
        /\ (/\ pc[t] = "refresh_http" /\ pc'[t] = "save_delete"
            /\ loc'[t].answer.refresh_token = "")
              => loc'[t].new_token.refresh_token = loc[t].token.refresh_token
        /\ (/\ pc[t] = "save_create" /\ pc'[t] # pc[t]
            /\ loc[t].answer.refresh_token = "")
              => \E r \in TokenRows(call[t].user)' :
                    /\ r.access_token = loc[t].new_token.access_token
                    /\ r.refresh_token = loc[t].token.refresh_token
                    /\ r.refresh_token = RefreshTokenOf(call[t].user)
      ]_vars

\* a refresh answered without refresh_token was stored and returned
C26_Witness ==
    \E t \in Tasks :
        /\ pc[t] = "done" /\ call[t].op = "ensure"
        /\ loc[t].answer.kind = "ok" /\ loc[t].answer.refresh_token = ""
        /\ loc[t].saved
        /\ result[t] = Ok(loc[t].new_token.access_token)
        /\ \E r \in TokenRows(call[t].user) :
              /\ r.access_token = loc[t].new_token.access_token
              /\ r.refresh_token = RefreshTokenOf(call[t].user)

\* C27: the credential a successful refresh builds has expires_at >= the
\* time of the refresh, whatever expires_in the provider answered.
C27_ExpiryNotBelowNow ==
    [][\A t \in Tasks :
        (pc[t] = "refresh_http" /\ pc'[t] = "save_delete")
            => loc'[t].new_token.expires_at >= now
      ]_vars

\* C28: a refresh of a credential that has not expired yet builds a
\* credential that expires no earlier than the one it replaces (the
\* provider's expires_in being no less than 0), and the call returns the
\* access token of the new credential.
C28_ExpiryNeverEarlier ==
    [][\A t \in Tasks :
        /\ (/\ pc[t] = "refresh_http" /\ pc'[t] = "save_delete"
            /\ loc[t].token.expires_at > now
            /\ loc'[t].answer.expires_in >= 0)
              => loc'[t].new_token.expires_at >= loc[t].token.expires_at
        /\ (pc[t] = "save_create" /\ pc'[t] = "done")
              => result'[t] = Ok(loc[t].new_token.access_token)
      ]_vars

\* the answers that are no token response
FailedAnswers == {"rejected", "server", "network"}

\* C24: the answer of GET /api/videos to a request whose refresh the
\* provider rejected differs from its answer when the refresh failed for
\* another reason.
C24_RejectionIsDistinct ==
    \A t \in Tasks :
        (/\ pc[t] = "done" /\ call[t].op = "api_videos"
         /\ loc[t].answer.kind = "rejected")
            => \A k \in {"server", "network"} :
                  result[t] # HandlerAnswer(Err(RefreshError([kind |-> k])))

\* C25: a call sends at most one refresh request and at most one exchange
\* request; when a refresh, an exchange or a page request fails, that
\* request was sent once and the step that receives the failure ends the
\* operation with an error, no other request being sent.
C25_NoRetry ==
    [][\A t \in Tasks :
        /\ loc'[t].refresh_calls <= 1
        /\ loc'[t].exchange_calls <= 1
        /\ (/\ pc[t] = "refresh_http" /\ loc'[t] # loc[t]
            /\ loc'[t].answer.kind \in FailedAnswers)
              => /\ pc'[t] = ReturnTo(t)
                 /\ result'[t] = Err(RefreshError(loc'[t].answer))
                 /\ loc'[t].refresh_calls = 1
        /\ (/\ pc[t] = "exchange_http" /\ loc'[t] # loc[t]
            /\ loc'[t].answer.kind \in FailedAnswers)
              => /\ pc'[t] = "done"
                 /\ result'[t] = Err(ExchangeError(loc'[t].answer))
                 /\ loc'[t].exchange_calls = 1
        /\ (/\ pc[t] \in {"threads_http", "videos_http"}
            /\ Len(loc'[t].requested) = Len(loc[t].requested) + 1
            /\ Len(loc'[t].pages) = Len(loc[t].pages))
              => /\ pc'[t] = ReturnTo(t)
                 /\ result'[t] = Err("youtube_api")
                 /\ loc'[t].requested = Append(loc[t].requested,
                                               loc[t].page_token)
      ]_vars

\* fetch_comment_threads got a page and failed on the request for the next
\* one, which it sent once
C25_Witness ==
    \E t \in Tasks :
        /\ pc[t] = "done" /\ call[t].op = "threads"
        /\ Len(loc[t].pages) >= 1
        /\ Len(loc[t].requested) = Len(loc[t].pages) + 1
        /\ loc[t].requested[Len(loc[t].requested)] # ""
        /\ result[t] = Err("youtube_api")

\* C39: the credential refresh_token builds always carries the refresh token
\* the request was made with, also when the provider answered with a new
\* one, so every stored credential keeps the refresh token its account
\* started with, however many refreshes were made.
C39_RefreshTokenNeverRotates ==
    /\ \A r \in auth_tokens : r.refresh_token = RefreshTokenOf(r.user_id)
    /\ \A t \in Tasks :
          (call[t].op = "ensure" /\ loc[t].answer.kind = "ok") =>
             loc[t].new_token.refresh_token = loc[t].token.refresh_token

\* a second refresh of an account, answered with a rotated refresh token,
\* was stored with the refresh token the account started with
C39_Witness ==
    \E t \in Tasks :
        /\ pc[t] = "done" /\ call[t].op = "ensure"
        /\ loc[t].answer.kind = "ok"
        /\ loc[t].answer.refresh_token = "rotated"
        /\ loc[t].token.access_token >= 3
        /\ loc[t].saved
        /\ \E r \in TokenRows(call[t].user) :
              /\ r.access_token = result[t].value
              /\ r.refresh_token = RefreshTokenOf(call[t].user)

\* ================================================== GET /api/comments/:id
\* SELECT * FROM comments WHERE video_id = $video_id
VideoRows(v) == {r \in comments : r.video_id = v}

CacheMissAlways(v) == TRUE

\* db.get_comments answers Ok(None): the query found no row
CacheMiss(v) == VideoRows(v) = {}

\* GET /api/comments/:video_id
ApiGetComments(t) ==
    /\ \E h \in Headers, v \in {"v0", "v1"} :
         ApiArrive(t, h, [op |-> "api_comments", user |-> "", no |-> 0,
                          header |-> h, video |-> v], "comments_db")
    /\ UNCHANGED <<now, auth_tokens, nextTok>>
    /\ UNCHANGED otherTables

\* get_comments: the match on db.get_comments(&video_id); the rows found
\* are the answer, no row sends the handler on to fetch_comments, an error
\* of the query is answered 500
CommentsLookup(t) ==
    /\ pc[t] = "comments_db"
    /\ \/ /\ ~CacheMiss(call[t].video)
          /\ pc' = [pc EXCEPT ![t] = "done"]
          /\ result' = [result EXCEPT ![t] = Ok(VideoRows(call[t].video))]
       \/ /\ CacheMiss(call[t].video)
          /\ pc' = [pc EXCEPT ![t] = "gvat_load"]
          /\ UNCHANGED result
       \/ /\ pc' = [pc EXCEPT ![t] = "done"]
          /\ result' = [result EXCEPT ![t] = Err("internal_server_error")]
    /\ UNCHANGED <<now, auth_tokens, sessions, users, comments, interactions,
                   call, loc, nextTok, ncalls>>

CommentsStep(t) ==
    \/ AllIdle /\ ApiGetComments(t)
    \/ CommentsLookup(t)
    \/ GvatLoad(t)
    \/ ThreadsPage(t)
    \/ Merge(t)
    \/ Save(t)
    \/ Record(t)
    \/ ApiReturn(t)

\* requests for the comments of a video, one after another
NextComments == \E t \in Tasks : CommentsStep(t)

SpecComments == InitApi /\ [][NextComments]_vars

\* C31: GET /api/comments/:id answers with the stored rows of the video when
\* there are some, in one step that sends no request, refreshes no
\* credential and writes neither comments nor interactions; it goes on to
\* fetch_comments only when the video has no stored row.
C31_CacheThrough ==
    [][\A t \in Tasks :
        (call[t].op = "api_comments" /\ pc[t] = "comments_db"
                                    /\ pc'[t] # pc[t]) =>
          /\ (VideoRows(call[t].video) # {}) =>
                /\ pc'[t] = "done"
                /\ result'[t] \in {Ok(VideoRows(call[t].video)),
                                   Err("internal_server_error")}
          /\ (pc'[t] = "done") =>
                /\ loc'[t] = LocInit
                /\ UNCHANGED <<auth_tokens, comments, interactions, nextTok>>
          /\ (pc'[t] # "done") =>
                /\ pc'[t] = "gvat_load"
                /\ VideoRows(call[t].video) = {}
      ]_vars

\* a second request for v1 was answered from the rows the first one stored
C31_Witness ==
    \E t \in Tasks :
        /\ pc[t] = "done" /\ call[t].op = "api_comments"
        /\ call[t].video = "v1" /\ call[t].no >= 2
        /\ loc[t] = LocInit
        /\ VideoRows("v1") # {}
        /\ result[t].status = "ok"
        /\ result[t].value = VideoRows("v1")

\* ================================================ authenticated operations
\* u3 has never authenticated: no row of auth_tokens is u3's
Callers == {"u1", "u3"}

\* fetch_comments(user_id, video_id)
StartSyncAs(t) ==
    /\ \E u \in Callers :
         Begin(t, [op |-> "sync", user |-> u, no |-> 0, video |-> "v3"],
               "gvat_load")
    /\ UNCHANGED <<now, auth_tokens, nextTok>>
    /\ UNCHANGED otherTables

\* post_reply(user_id, comment_id, text)
StartPostAs(t) ==
    /\ \E u \in Callers :
         Begin(t, [op |-> "post", user |-> u, no |-> 0, comment |-> "c4"],
               "gvat_load")
    /\ UNCHANGED <<now, auth_tokens, nextTok>>
    /\ UNCHANGED otherTables

\* get_channel_videos(user_id)
StartVideosAs(t) ==
    /\ \E u \in Callers :
         Begin(t, [op |-> "videos", user |-> u, no |-> 0], "gvat_load")
    /\ UNCHANGED <<now, auth_tokens, nextTok>>
    /\ UNCHANGED otherTables

OpsStep(t) ==
    \/ AllIdle /\ StartSyncAs(t)
    \/ AllIdle /\ StartPostAs(t)
    \/ AllIdle /\ StartVideosAs(t)
    \/ GvatLoad(t)
    \/ RefreshResponse(t)
    \/ SaveTokenDelete(t)
    \/ SaveTokenCreate(t)
    \/ ThreadsPage(t)
    \/ RepliesPage(t)
    \/ Merge(t)
    \/ Save(t)
    \/ Record(t)
    \/ PostHttp(t)
    \/ PostMark(t)
    \/ PostRecord(t)
    \/ ChannelLookup(t)
    \/ VideosPage(t)
    \/ VideosSleep(t)

\* the operations of the youtube service, one after another, the credential
\* of u1 being due for refresh at first
NextOps == \E t \in Tasks : OpsStep(t)

SpecOps == InitRemote /\ [][NextOps]_vars

\* where a task is inside get_valid_access_token
CredPcs == {"gvat_load", "refresh_http", "save_delete", "save_create"}

\* where a task is about to send a request to the remote API
ResourcePcs == {"threads_http", "replies_http", "post_http", "channel_http",
                "videos_http"}

\* C34: fetch_comments, post_reply and get_channel_videos start with
\* get_valid_access_token; every request they send to the remote API
\* carries the access token that call returned (the stored one, or the one
\* of the refresh it made); and when that call fails the operation ends at
\* once, having sent no request and written neither comments nor
\* interactions.
C34_TokenFirst ==
    [][\A t \in Tasks :
        (pc'[t] # pc[t] \/ loc'[t] # loc[t]) =>
          /\ Idle(t) => pc'[t] = "gvat_load"
          /\ (pc[t] \in ResourcePcs) =>
                /\ loc'[t].bearer = loc[t].access_token
                /\ loc[t].access_token # 0
                /\ loc[t].access_token = IF loc[t].saved
                                         THEN loc[t].new_token.access_token
                                         ELSE loc[t].token.access_token
          /\ (pc[t] \in CredPcs) =>
                /\ UNCHANGED <<comments, interactions>>
                /\ loc'[t].bearer = 0 /\ loc'[t].requested = <<>>
                /\ (pc'[t] = "done") =>
                      /\ result'[t].status = "err"
                      /\ WrittenBy(t) = {}
                      /\ \A r \in comments : r.rid[1] # call[t].no
      ]_vars

\* fetch_comments of u1 refreshed the credential, sent its requests with
\* the new access token and stored comments
C34_Witness ==
    \E t \in Tasks :
        /\ pc[t] = "done" /\ call[t].op = "sync" /\ call[t].user = "u1"
        /\ result[t].status = "ok"
        /\ loc[t].saved
        /\ loc[t].bearer = loc[t].new_token.access_token
        /\ loc[t].bearer # loc[t].token.access_token
        /\ \E r \in comments : r.rid[1] = call[t].no

\* ===================================================== GET /api/auth/callback
\* the provider redirects back with the authorization code account u granted
StartCallback(t) ==
    /\ \E u \in Users :
         Begin(t, [op |-> "callback", user |-> u, no |-> 0, code |-> "code"],
               "exchange_http")
    /\ UNCHANGED <<now, auth_tokens, nextTok>>
    /\ UNCHANGED otherTables

\* create_or_update_user: get_user_info(&token.access_token), which fails on
\* a failed request or a non-success status
CallbackUserInfo(t) ==
    /\ pc[t] = "userinfo_http"
    /\ \/ /\ pc' = [pc EXCEPT ![t] = "user_get"]
          /\ UNCHANGED <<loc, result>>
       \/ Finish(t, Err("user_info"))
    /\ UNCHANGED <<now, auth_tokens, sessions, users, comments, interactions,
                   call, nextTok, ncalls>>

\* create_or_update_user: db.get_user(&user_info.id); the user found is
\* updated, a new one is built otherwise
CallbackGetUser(t) ==
    /\ pc[t] = "user_get"
    /\ \/ /\ pc' = [pc EXCEPT ![t] = "user_delete"]
          /\ UNCHANGED <<loc, result>>
       \/ Finish(t, Err("db"))
    /\ UNCHANGED <<now, auth_tokens, sessions, users, comments, interactions,
                   call, nextTok, ncalls>>

\* save_user, first query: DELETE FROM users WHERE id = $id
SaveUserDelete(t) ==
    /\ pc[t] = "user_delete"
    /\ \/ /\ users' = users \ UserRows(call[t].user)
          /\ pc' = [pc EXCEPT ![t] = "user_create"]
          /\ UNCHANGED <<loc, result>>
       \/ /\ Finish(t, Err("db"))
          /\ UNCHANGED users
    /\ UNCHANGED <<now, auth_tokens, sessions, comments, interactions,
                   call, nextTok, ncalls>>

\* save_user, second query: create("users"); then save_auth_token
SaveUserCreate(t) ==
    /\ pc[t] = "user_create"
    /\ \/ /\ users' = users \cup {[id |-> call[t].user]}
          /\ pc' = [pc EXCEPT ![t] = "save_delete"]
          /\ UNCHANGED <<loc, result>>
       \/ /\ Finish(t, Err("db"))
          /\ UNCHANGED users
    /\ UNCHANGED <<now, auth_tokens, sessions, comments, interactions,
                   call, nextTok, ncalls>>

CallbackStep(t) ==
    \/ StartCallback(t)
    \/ StartEnsure(t)
    \/ ExchangeResponse(t)
    \/ CallbackUserInfo(t)
    \/ CallbackGetUser(t)
    \/ SaveUserDelete(t)
    \/ SaveUserCreate(t)
    \/ GvatLoad(t)
    \/ RefreshResponse(t)
    \/ SaveTokenDelete(t)
    \/ SaveTokenCreate(t)
    \/ CreateSession(t)
    \/ ApiReturn(t)

\* logins and token users side by side
NextCallback == \E t \in Tasks : CallbackStep(t)

SpecCallback == InitRemote /\ [][NextCallback]_vars

\* C35: oauth_callback creates a session only after the exchange succeeded
\* and the user and the credential were saved, a failed step ends the request
\* with no session, and at the step that stores a session the account of the
\* session has a users row and an auth_tokens row.
C35_SessionAfterCredential ==
    [][\A t \in Tasks :
        /\ (call[t].op = "callback" /\ pc[t] = "sess_create"
              /\ pc'[t] # pc[t]) =>
             /\ loc[t].answer.kind = "ok"
             /\ loc[t].saved
             /\ \A x \in sessions' \ sessions :
                   /\ x.user_id = call[t].user
                   /\ UserRows(x.user_id) # {}
                   /\ TokenRows(x.user_id) # {}
        /\ (call[t].op = "callback" /\ pc[t] # "sess_create"
              /\ pc'[t] # pc[t])
             => sessions' = sessions
      ]_vars

====
